---- MODULE Spec2Model ----
(***************************************************************************)
(* Verification model of the wasabi kernel core: the first-fit heap        *)
(* allocator (os/src/first_fit_allocator.rs), the xHCI TRB rings           *)
(* (os/src/xhci/ring.rs), the event waiters (os/src/xhci/future.rs), the   *)
(* network manager (os/src/net/manager.rs) and the USB HID keyboard driver *)
(* (os/src/usb_hid_keyboard.rs).                                           *)
(***************************************************************************)
EXTENDS Integers, Sequences, FiniteSets, TLC

VARIABLES
    \* ---- first-fit allocator ----
    build,          \* how the kernel was compiled: overflow checks, noalias caching
    mmap,           \* the UEFI memory map handed to init_with_mmap
    heap_ready,     \* init_with_mmap has run
    mem,            \* physical memory, as far as it holds Headers: addr -> Header
    first_header,   \* FirstFitAllocator.first_header (0 is None)
    freed,          \* pointers that were passed to dealloc so far
    halted,         \* "run", or how the kernel stopped: "panic" / "hang"
    last,           \* the last allocator call and its result
    churn,          \* churn bookkeeping: previous request size, bytes requested
    \* ---- xHCI Command ring (software produces, the controller consumes) ----
    cmd_trb,        \* CommandRing.ring.trb: slot -> TRB
    cmd_index,      \* CommandRing.ring.current_index
    cmd_cycle,      \* CommandRing.cycle_state_ours
    cmd_pc,         \* where the running push is: "idle", "write", "advance", "link"
    cmd_src,        \* the TRB being pushed, and which halves of it are still to be stored
    cmd_snap,       \* the ring as it was when the running push was called
    cmd_calls,      \* number of push calls made
    cmd_last,       \* the last finished push and its result
    xhc_index,      \* the controller's command ring dequeue pointer (slot)
    xhc_ccs,        \* the controller's consumer cycle state
    xhc_consumed,   \* how many command TRBs the controller has executed
    xhc_last,       \* the command TRB it executed last, as it read it
    \* ---- xHCI Transfer ring ----
    xfer_trb,       \* TransferRing.ring.trb
    xfer_index,     \* TransferRing.ring.current_index (the enqueue index)
    xfer_cycle,     \* TransferRing.cycle_state_ours
    xfer_deq,       \* TransferRing.dequeue_index
    xfer_filled,    \* fill_ring has been called
    xfer_count,     \* successful dequeue_trb calls
    xfer_last,      \* the last TransferRing call and its result
    \* ---- xHCI Event ring (the controller produces, software consumes) ----
    ev_trb,         \* EventRing.ring.trb
    ev_index,       \* EventRing.ring.current_index
    ev_cycle,       \* EventRing.cycle_state_ours
    ev_erdp,        \* the value of the ERDP register of interrupter 0
    ev_pc,          \* where the running pop is: "idle" or "erdp"
    ev_e,           \* the TRB the running pop has read, and the slot it read it from
    ev_popped,      \* number of events pop has returned
    ev_last,        \* the last finished pop and its result
    xhc_ev_enq,     \* the controller's event ring enqueue pointer (slot)
    xhc_ev_pcs,     \* the controller's producer cycle state
    xhc_ev_written, \* number of events the controller has written
    \* ---- xHCI event waiters and EventFuture ----
    hpet,           \* the HPET main counter
    waiters,        \* the Event ring's list of registered waiters (future ids)
    wi,             \* future id -> its EventWaitInfo, deadline and life cycle
    fut_last,       \* the last operation on the waiters and its result
    \* ---- network manager ----
    net_pc,         \* where network_manager_thread is: "probe", "tx", "rx", "returned", "panicked"
    interfaces,     \* Network.interfaces: the registered (weak) interfaces, in order
    iface_alive,    \* the interfaces whose weak reference still upgrades
    interface_has_added, \* Network.interface_has_added
    lease,          \* Network.self_ip, netmask, router, dns
    ip_tx_queue,    \* Network.ip_tx_queue
    arp_table,      \* Network.arp_table: IP -> (ethernet address, interface)
    net_last,       \* the last step of the task and what it did
    \* ---- USB HID keyboard ----
    kbd_sel,        \* the last init_usb_hid_keyboard: descriptor list and what was selected
    kbd_key,        \* the last usage id translated, and the result
    prev_pressed_keys, \* attach_usb_device: the keys held in the last report handled
    input_queue,       \* InputManager.input_queue
    attach_run,        \* attach_usb_device is still in its loop
    attach_last,       \* the last event handled: the report, the keys held before, what was pushed
    cpu,            \* the CPU's registers and FPU state
    cpl,            \* which side runs: "os" or "app"
    context_os,     \* CONTEXT_OS
    context_app,    \* CONTEXT_APP
    lock_os,        \* who holds the lock of CONTEXT_OS
    lock_app,       \* who holds the lock of CONTEXT_APP
    exec_pc,        \* where exec_app_context is
    exit_reason,    \* exec_app_context: exit_reason and retcode of the last entry
    retcode,
    exec_result,    \* what exec_app_context returned
    entries,        \* entries into the app, and yield_execution awaits, so far
    yields,
    ctx_last,       \* the last switch: its kind and the app's state when it left
    eoi_count,      \* end-of-interrupt signals the local APIC has received
    int_fatal,      \* the kernel has panicked in an interrupt handler
    int_last,       \* the last interrupt: vector, what was printed, how it ended
    pci_next_id,    \* BusDeviceFunctionIterator.next_id
    pci_yielded,    \* items the iterator has yielded
    pci_item,       \* the last value next() returned (the id, or None)
    pci_last,       \* the last BusDeviceFunction::new: arguments and result
    gfx_buf,        \* the pixels of the bitmap, by index y * pixels_per_line + x
    gfx_last,       \* the last transfer_rect: arguments and result
    cfg_pc,         \* init_usb_hid_keyboard: 0 not started, 1..4 the request awaited, 5 the fill loop, 6 returned
    cfg_completed,  \* the requests that have completed successfully, in order
    cfg_rings,      \* ep_rings: for every dci "none", "new" (created) or "filled"
    cfg_doorbells,  \* the endpoint doorbells rung (notify_ep), in order
    cfg_result,     \* what init_usb_hid_keyboard returned, and the request it failed at
    dhcp_last       \* the last DHCP boot reply handled: its option bytes, the result and the lease

allocVars == <<build, mmap, heap_ready, mem, first_header, freed, halted, last, churn>>

cmdVars == <<cmd_trb, cmd_index, cmd_cycle, cmd_pc, cmd_src, cmd_snap, cmd_calls, cmd_last,
             xhc_index, xhc_ccs, xhc_consumed, xhc_last>>

xferVars == <<xfer_trb, xfer_index, xfer_cycle, xfer_deq, xfer_filled, xfer_count, xfer_last>>

evVars == <<ev_trb, ev_index, ev_cycle, ev_erdp, ev_pc, ev_e, ev_popped, ev_last,
            xhc_ev_enq, xhc_ev_pcs, xhc_ev_written>>

futVars == <<hpet, waiters, wi, fut_last>>

netVars == <<net_pc, interfaces, iface_alive, interface_has_added, lease, ip_tx_queue,
             arp_table, net_last>>

kbdVars == <<kbd_sel, kbd_key>>

attachVars == <<prev_pressed_keys, input_queue, attach_run, attach_last>>

execVars == <<cpu, cpl, context_os, context_app, lock_os, lock_app, exec_pc, exit_reason, retcode,
              exec_result, entries, yields, ctx_last>>

idtVars == <<eoi_count, int_fatal, int_last>>

pciVars == <<pci_next_id, pci_yielded, pci_item, pci_last>>

gfxVars == <<gfx_buf, gfx_last>>

cfgVars == <<cfg_pc, cfg_completed, cfg_rings, cfg_doorbells, cfg_result>>

dhcpVars == <<dhcp_last>>

vars == <<allocVars, cmdVars, xferVars, evVars, futVars, netVars, kbdVars, attachVars, execVars, idtVars, pciVars, gfxVars, cfgVars, dhcpVars>>

(* what the operations of one component leave alone *)
exceptAlloc == <<cmdVars, xferVars, evVars, futVars, netVars, kbdVars, attachVars, execVars, idtVars, pciVars, gfxVars, cfgVars, dhcpVars>>
exceptCmd == <<allocVars, xferVars, evVars, futVars, netVars, kbdVars, attachVars, execVars, idtVars, pciVars, gfxVars, cfgVars, dhcpVars>>
exceptXfer == <<allocVars, cmdVars, evVars, futVars, netVars, kbdVars, attachVars, execVars, idtVars, pciVars, gfxVars, cfgVars, dhcpVars>>
exceptEv == <<allocVars, cmdVars, xferVars, futVars, netVars, kbdVars, attachVars, execVars, idtVars, pciVars, gfxVars, cfgVars, dhcpVars>>
exceptFut == <<allocVars, cmdVars, xferVars, evVars, netVars, kbdVars, attachVars, execVars, idtVars, pciVars, gfxVars, cfgVars, dhcpVars>>
exceptNet == <<allocVars, cmdVars, xferVars, evVars, futVars, kbdVars, attachVars, execVars, idtVars, pciVars, gfxVars, cfgVars, dhcpVars>>
exceptKbd == <<allocVars, cmdVars, xferVars, evVars, futVars, netVars, attachVars, execVars, idtVars, pciVars, gfxVars, cfgVars, dhcpVars>>
exceptAttach == <<allocVars, cmdVars, xferVars, evVars, futVars, netVars, kbdVars, execVars, idtVars, pciVars, gfxVars, cfgVars, dhcpVars>>
exceptExec == <<allocVars, cmdVars, xferVars, evVars, futVars, netVars, kbdVars, attachVars, idtVars, pciVars, gfxVars, cfgVars, dhcpVars>>
exceptIdt == <<allocVars, cmdVars, xferVars, evVars, futVars, netVars, kbdVars, attachVars, execVars, pciVars, gfxVars, cfgVars, dhcpVars>>
exceptPci == <<allocVars, cmdVars, xferVars, evVars, futVars, netVars, kbdVars, attachVars, execVars, idtVars, gfxVars, cfgVars, dhcpVars>>
exceptGfx == <<allocVars, cmdVars, xferVars, evVars, futVars, netVars, kbdVars, attachVars, execVars, idtVars, pciVars, cfgVars, dhcpVars>>
exceptCfg == <<allocVars, cmdVars, xferVars, evVars, futVars, netVars, kbdVars, attachVars, execVars, idtVars, pciVars, gfxVars, dhcpVars>>
exceptDhcp == <<allocVars, cmdVars, xferVars, evVars, futVars, netVars, kbdVars, attachVars, execVars, idtVars, pciVars, gfxVars, cfgVars>>

----------------------------------------------------------------------------
(* Bounds of the model *)

\* largest CONVENTIONAL_MEMORY descriptor of the memory maps, in pages
MaxPages == 2
\* alloc is not tried once memory holds this many headers
MaxHeaders == 4
\* number of push calls made on the Command ring
MaxPush == 32
\* number of successful dequeue_trb calls on the Transfer ring
MaxDequeue == 32

(* events the controller writes *)
MaxEvents == 34

(* EventFutures created *)
MaxFutures == 1

(* ticks of the HPET main counter *)
MaxTicks == 3

(* packets waiting in the transmit queue *)
MaxTxQueue == 1

(* packets waiting in the transmit queue when several are sent in a row *)
MaxTxBurst == 2

(* length of a device's descriptor list *)
MaxDescriptors == 5

(* characters waiting in the input queue *)
MaxInputQueue == 3

(* entries of exec_app_context into the app *)
MaxEntries == 3

(* timer interrupts delivered *)
MaxTimerInterrupts == 2

(* Program constants *)
HEADER_SIZE == 16
PAGE_SIZE == 4096

(* Memory is kept in units of HEADER_SIZE bytes: a descriptor starts on a  *)
(* page, an effective size is a power of two >= 16 and an effective        *)
(* alignment is >= 16, so every header address and every header size is a  *)
(* multiple of 16.  Units(b) is b bytes in units; U32 is 2^32 bytes (the   *)
(* range of Header.size: u32) in units.                                    *)
Units(bytes) == bytes \div HEADER_SIZE
HDR == Units(HEADER_SIZE)
U32 == 65536 * Units(65536)

CONVENTIONAL_MEMORY == "CONVENTIONAL_MEMORY"
LOADER_DATA == "LOADER_DATA"

Max(a, b) == IF a >= b THEN a ELSE b

----------------------------------------------------------------------------
(* util::round_up_to_nearest_pow2: the smallest power of two >= v (v >= 1) *)
RECURSIVE Pow2AtLeast(_, _)
Pow2AtLeast(v, p) == IF p >= v THEN p ELSE Pow2AtLeast(v, 2 * p)

round_up_to_nearest_pow2(v) == Pow2AtLeast(v, 1)

(* x & !(align - 1), align a power of two *)
AlignDown(x, align) == x - (x % align)

Header(n, s, a) == [next_header |-> n, size |-> s, is_allocated |-> a]

(* a store of a whole Header at addr (Header::new_from_addr writes a fresh one) *)
WriteHeader(m, addr, h) ==
    [x \in (DOMAIN m) \cup {addr} |-> IF x = addr THEN h ELSE m[x]]

new_from_addr(m, addr) == WriteHeader(m, addr, Header(0, 0, FALSE))

(* Header::can_provide: the alignment takes no part in the test *)
can_provide(h, size, align) == h.size >= size + HDR * 3

(* the size a request is served with: max(round_up_to_nearest_pow2(size), 16), *)
(* and the alignment: max(align, 16); both in units                          *)
EffectiveSize(size) == Units(Max(round_up_to_nearest_pow2(size), HEADER_SIZE))

EffectiveAlign(align) == Units(Max(align, HEADER_SIZE))

(* allocated_addr = (self.end_addr() - size) & !(align - 1) *)
AllocatedAddrUnaligned(end, size, align) == end - size

AllocatedAddr(end, size, align) == AlignDown(end - size, align)

----------------------------------------------------------------------------
(* Header::provide(&mut self, size, align), lines 63-104.                  *)
(* m is memory, self the address of the header asked.  The result is       *)
(* [kind |-> "none"] when the header declines, and otherwise the memory    *)
(* after the split, the pointer, and whether an arithmetic overflow        *)
(* happened on the way (a panic when the build checks overflow, a          *)
(* wrap-around when it does not).                                          *)
(* The header for the allocated region is written at allocated_addr - 16   *)
(* wherever that is.  When it lands on self, `self` and the new Box name   *)
(* the same memory: a build that keeps self.size and self.next_header in   *)
(* registers (cached) and one that reads them again from memory (not       *)
(* cached) are both modelled; they agree whenever nothing aliases.         *)
provide(m, self, reqsize, reqalign, cached) ==
    LET size  == EffectiveSize(reqsize)
        align == EffectiveAlign(reqalign)
        S0    == m[self].size
        N0    == m[self].next_header
    IN  IF m[self].is_allocated \/ ~can_provide(m[self], size, align)
        THEN [kind |-> "none", mem |-> m, ptr |-> 0, overflow |-> FALSE]
        ELSE
        LET allocated_addr == AllocatedAddr(self + S0, size, align)
            hfa   == allocated_addr - HDR
            \* let mut header_for_allocated = new_from_addr(allocated_addr - 16)
            m1    == new_from_addr(m, hfa)
            \* .is_allocated = true; .size = size + HEADER_SIZE
            m2    == [m1 EXCEPT ![hfa].is_allocated = TRUE,
                                ![hfa].size = size + HDR]
            used1 == size + HDR
            \* header_for_allocated.next_header = self.next_header.take()
            taken == IF cached THEN N0 ELSE m2[self].next_header
            m3    == [[m2 EXCEPT ![self].next_header = 0]
                          EXCEPT ![hfa].next_header = taken]
            hend  == hfa + m3[hfa].size
            selfEnd3 == self + (IF cached THEN S0 ELSE m3[self].size)
            hasPad == hend # selfEnd3
            \* let mut header_for_padding = new_from_addr(hfa.end_addr())
            pad   == hend
            m4    == new_from_addr(m3, pad)
            selfEnd4 == self + (IF cached THEN S0 ELSE m4[self].size)
            padExact == selfEnd4 - hend
            padSize  == padExact % U32
            used2 == used1 + padSize
            \* padding.next = hfa.next.take(); hfa.next = Some(padding)
            hfaNext == m4[hfa].next_header
            m5    == [[[m4 EXCEPT ![pad].is_allocated = FALSE,
                                  ![pad].size = padSize]
                           EXCEPT ![pad].next_header = hfaNext]
                           EXCEPT ![hfa].next_header = pad]
            m6    == IF hasPad THEN m5 ELSE m3
            used  == IF hasPad THEN used2 % U32 ELSE used1
            \* self.size -= size_used; self.next_header = Some(hfa)
            selfSize == IF cached THEN S0 ELSE m6[self].size
            newExact == selfSize - used
            m7    == [m6 EXCEPT ![self].size = newExact % U32,
                                ![self].next_header = hfa]
            ovf   == \/ hasPad /\ (padExact < 0 \/ used2 >= U32)
                     \/ newExact < 0
        IN  [kind |-> "some", mem |-> m7, ptr |-> allocated_addr, overflow |-> ovf]

(* FirstFitAllocator::alloc_with_options, lines 136-153: walk the list     *)
(* from first_header and take the first header that provides.  A walk that *)
(* comes back to a header it has already asked never ends.                 *)
RECURSIVE Walk(_, _, _, _, _, _)
Walk(m, cur, seen, size, align, cached) ==
    IF cur = 0 THEN [kind |-> "null", mem |-> m, ptr |-> 0, overflow |-> FALSE]
    ELSE IF cur \in seen THEN [kind |-> "hang", mem |-> m, ptr |-> 0, overflow |-> FALSE]
    ELSE LET r == provide(m, cur, size, align, cached)
         IN  IF r.kind = "some" THEN r
             ELSE Walk(m, m[cur].next_header, seen \cup {cur}, size, align, cached)

(* a walk that asks the first header only *)
alloc_first_only(m, first, size, align, cached) ==
    IF first = 0 THEN Walk(m, 0, {}, size, align, cached)
    ELSE LET r == provide(m, first, size, align, cached)
         IN  IF r.kind = "some" THEN r ELSE Walk(m, 0, {}, size, align, cached)

alloc_with_options(m, first, size, align, cached) == Walk(m, first, {}, size, align, cached)

(* GlobalAlloc::dealloc, lines 127-132 *)
DeallocCoalescing(m, ptr) ==
    LET h == ptr - HDR
        n == h + m[h].size
    IN  IF n \in DOMAIN m /\ ~m[n].is_allocated
        THEN [m EXCEPT ![h].is_allocated = FALSE, ![h].size = m[h].size + m[n].size,
                       ![h].next_header = m[n].next_header]
        ELSE [m EXCEPT ![h].is_allocated = FALSE]

dealloc(m, ptr) == [m EXCEPT ![ptr - HDR].is_allocated = FALSE]

(* the headers on the free list: those the next chain reaches from first *)
RECURSIVE ReachFrom(_, _, _)
ReachFrom(m, cur, seen) ==
    IF cur = 0 \/ cur \in seen THEN seen
    ELSE ReachFrom(m, m[cur].next_header, seen \cup {cur})

OnList(m, first) == ReachFrom(m, first, {})

----------------------------------------------------------------------------
(* The memory maps the firmware may hand over: non-contiguous descriptors, *)
(* page aligned, CONVENTIONAL_MEMORY ones of 1..MaxPages pages.            *)
Descriptor(start, pages, type) ==
    [physical_start |-> start, number_of_pages |-> pages, memory_type |-> type]

DescStart(i) == i * 256 * Units(PAGE_SIZE)

MemoryMaps ==
    { <<Descriptor(DescStart(1), n, CONVENTIONAL_MEMORY)>> : n \in 1..MaxPages }
    \cup
    { <<Descriptor(DescStart(1), n, CONVENTIONAL_MEMORY),
        Descriptor(DescStart(2), 1, LOADER_DATA),
        Descriptor(DescStart(3), 1, CONVENTIONAL_MEMORY)>> : n \in 1..MaxPages }

(* the requests tried: sizes (bytes) and power-of-two alignments *)
AllocSizes == {16, 1000, 1234, 2000}
AllocAligns == {8, 2048, 4096}

ConventionalDescs(map) ==
    { map[i] : i \in { j \in 1..Len(map) : map[j].memory_type = CONVENTIONAL_MEMORY } }

(* header.size = desc.number_of_pages as u32 * 4096 *)
DescSizeExact(desc) == desc.number_of_pages * Units(PAGE_SIZE)

DescSize(desc) == DescSizeExact(desc) % U32

(* FirstFitAllocator::add_free_from_descriptor, lines 180-193 *)
add_free_from_descriptor(st, desc) ==
    LET addr == desc.physical_start
        h    == Header(st.first, DescSize(desc), FALSE)
    IN  [mem |-> WriteHeader(st.mem, addr, h), first |-> addr,
         overflow |-> st.overflow \/ DescSizeExact(desc) >= U32]

(* FirstFitAllocator::init_with_mmap, lines 154-179 *)
RECURSIVE init_with_mmap(_, _, _)
init_with_mmap(st, map, i) ==
    IF i > Len(map) THEN st
    ELSE IF map[i].memory_type # CONVENTIONAL_MEMORY THEN init_with_mmap(st, map, i + 1)
    ELSE init_with_mmap(add_free_from_descriptor(st, map[i]), map, i + 1)

NoCall == [op |-> "none", size |-> 0, align |-> 0, ptr |-> 0, res |-> "ok"]
Call(op, size, align, ptr, res) ==
    [op |-> op, size |-> size, align |-> align, ptr |-> ptr, res |-> res]

EmptyMem == [x \in {} |-> Header(0, 0, FALSE)]

InitAlloc ==
    /\ build \in [overflow_checks : BOOLEAN, cached : BOOLEAN]
    /\ mmap = <<>>
    /\ heap_ready = FALSE
    /\ mem = EmptyMem
    /\ first_header = 0
    /\ freed = {}
    /\ halted = "run"
    /\ last = NoCall
    /\ churn = [prev |-> 0, asked |-> 0]

(* Memory maps of machines with 4 GiB of RAM and more: descriptors 8 GiB   *)
(* apart, of 1, MaxPages, 2^20 (exactly 4 GiB) and 2^20 + 1 pages.         *)
PagesOf4GiB == U32 \div Units(PAGE_SIZE)

FirmwareDescs(i) ==
    { Descriptor(i * 2 * U32, n, t) :
        n \in {1, MaxPages, PagesOf4GiB, PagesOf4GiB + 1},
        t \in {CONVENTIONAL_MEMORY, LOADER_DATA} }

FirmwareMaps ==
    { <<a>> : a \in FirmwareDescs(1) }
    \cup { <<a, b>> : a \in FirmwareDescs(1), b \in FirmwareDescs(2) }
    \cup { <<a, b, c>> : a \in FirmwareDescs(1), b \in FirmwareDescs(2),
                         c \in FirmwareDescs(3) }

(* the kernel initialises the allocator from the memory map, once *)
InitWithMmapFrom(maps) ==
    /\ ~heap_ready /\ halted = "run"
    /\ \E map \in maps :
          LET st == init_with_mmap([mem |-> mem, first |-> first_header, overflow |-> FALSE],
                                   map, 1)
          IN  /\ mmap' = map
              /\ IF st.overflow /\ build.overflow_checks
                 THEN /\ halted' = "panic"
                      /\ UNCHANGED <<mem, first_header>>
                 ELSE /\ mem' = st.mem
                      /\ first_header' = st.first
                      /\ halted' = halted
    /\ heap_ready' = TRUE
    /\ last' = Call("init", 0, 0, 0, "ok")
    /\ UNCHANGED <<build, freed, churn, exceptAlloc>>

InitWithMmap == InitWithMmapFrom(MemoryMaps)

(* the same call on a machine with large memory *)
InitWithMmapLarge == InitWithMmapFrom(FirmwareMaps)

(* one call alloc(size, align).  A build with overflow checks panics at    *)
(* the overflowing operation and the kernel stops inside provide (memory   *)
(* is not looked at again); a build without them goes on with the wrapped  *)
(* value.                                                                  *)
AllocStep(size, align) ==
    /\ heap_ready /\ halted = "run"
    /\ Cardinality(DOMAIN mem) < MaxHeaders
    /\ LET r == alloc_with_options(mem, first_header, size, align, build.cached)
       IN  CASE r.kind = "null" ->
                  /\ last' = Call("alloc", size, align, 0, "null")
                  /\ UNCHANGED <<mem, halted>>
             [] r.kind = "hang" ->
                  /\ last' = Call("alloc", size, align, 0, "hang")
                  /\ halted' = "hang"
                  /\ UNCHANGED mem
             [] r.kind = "some" /\ r.overflow /\ build.overflow_checks ->
                  /\ last' = Call("alloc", size, align, 0, "panic")
                  /\ halted' = "panic"
                  /\ UNCHANGED mem
             [] OTHER ->
                  /\ last' = Call("alloc", size, align, r.ptr, "ok")
                  /\ mem' = r.mem
                  /\ UNCHANGED halted
    /\ UNCHANGED <<build, mmap, heap_ready, first_header, freed>>

Alloc ==
    /\ \E size \in AllocSizes, align \in AllocAligns : AllocStep(size, align)
    /\ UNCHANGED <<churn, exceptAlloc>>

(* the pointers alloc has returned and that are not freed *)
Live(m) == { a + HDR : a \in { x \in DOMAIN m : m[x].is_allocated } }

(* free(ptr) of a live pointer *)
Free ==
    /\ heap_ready /\ halted = "run"
    /\ \E ptr \in Live(mem) :
          /\ mem' = dealloc(mem, ptr)
          /\ freed' = freed \cup {ptr}
          /\ last' = Call("free", 0, 0, ptr, "ok")
    /\ UNCHANGED <<build, mmap, heap_ready, first_header, halted, churn, exceptAlloc>>

(* churn: a block is freed before the next alloc, request sizes grow *)
ChurnAlloc ==
    /\ Live(mem) = {}
    /\ \E size \in AllocSizes, align \in AllocAligns :
          /\ size > churn.prev
          /\ AllocStep(size, align)
          /\ churn' = [prev |-> size,
                       asked |-> IF last'.res = "ok"
                                 THEN churn.asked + EffectiveSize(size) + EffectiveAlign(align)
                                 ELSE churn.asked]
    /\ UNCHANGED exceptAlloc

----------------------------------------------------------------------------
(* xHCI TRB rings, os/src/xhci/ring.rs *)

NUM_TRB == 16

Slots == 0..(NUM_TRB - 1)

(* A TRB is 16 bytes: data (u64), then status and control.  control holds  *)
(* the TRB type and the cycle bit.  `id` tags the two halves of a pushed   *)
(* TRB, so that a TRB read between the two stores of a write shows.        *)
Trb(data, ctl, type, cycle) == [data |-> data, ctl |-> ctl, type |-> type, cycle |-> cycle]

(* IoBox::new(): the ring's memory starts zeroed *)
ZeroTrb == Trb(0, 0, "Reserved", FALSE)

(* GenericTrbEntry::trb_link(ring): a Link TRB back to slot 0, cycle bit clear *)
trb_link == Trb(0, 0, "Link", FALSE)

(* NormalTrb::new(buf, 8).into() for buffer i *)
NormalTrb(i) == Trb(i, i, "Normal", FALSE)

cycle_state(trb) == trb.cycle

set_cycle_state(trb, c) == [trb EXCEPT !.cycle = c]

trb_type(trb) == trb.type

(* TrbRing::advance_index(new_cycle), lines 41-48; ring is               *)
(* [trb, index], the result carries ok = FALSE for the Err               *)
AdvanceIndexKeepsCycle(ring, new_cycle) ==
    IF cycle_state(ring.trb[ring.index]) = new_cycle
    THEN [ok |-> FALSE, trb |-> ring.trb, index |-> ring.index]
    ELSE [ok |-> TRUE, trb |-> ring.trb, index |-> (ring.index + 1) % NUM_TRB]

advance_index(ring, new_cycle) ==
    IF cycle_state(ring.trb[ring.index]) = new_cycle
    THEN [ok |-> FALSE, trb |-> ring.trb, index |-> ring.index]
    ELSE [ok |-> TRUE,
          trb |-> [ring.trb EXCEPT ![ring.index] = set_cycle_state(@, new_cycle)],
          index |-> (ring.index + 1) % NUM_TRB]

(* CommandRing::default(), lines 91-103 *)
CommandRingDefault == [i \in Slots |-> IF i = NUM_TRB - 1 THEN trb_link ELSE ZeroTrb]

(* push: `if ring.current().cycle_state() != self.cycle_state_ours`, line 112 *)
RingIsFull(trbs, index, ours) == cycle_state(trbs[index]) # ours

(* push: the cycle bit stamped on src before it is stored, line 115 *)
StampCycle(ours) == ours

(* push: `ring.current().trb_type() == TrbType::Link`, line 119 *)
NeverAtLink(trbs, index) == FALSE

AtLink(trbs, index) == trb_type(trbs[index]) = "Link"

NoPush == [n |-> 0, res |-> "none", ptr |-> 0, flipped |-> FALSE,
           undrained |-> FALSE, changed |-> FALSE, ours |-> FALSE]

(* the TRBs pushed and not yet executed by the controller *)
Outstanding == cmd_calls - xhc_consumed

InitCmd ==
    /\ cmd_trb = CommandRingDefault
    /\ cmd_index = 0
    /\ cmd_cycle = FALSE
    /\ cmd_pc = "idle"
    /\ cmd_src = [id |-> 0, left |-> {}]
    /\ cmd_snap = [trb |-> CommandRingDefault, index |-> 0, cycle |-> FALSE, undrained |-> FALSE]
    /\ cmd_calls = 0
    /\ cmd_last = NoPush
    /\ xhc_index = 0
    /\ xhc_ccs = TRUE      \* set_cmd_ring_ctrl: ring_phys_addr | 1
    /\ xhc_consumed = 0
    /\ xhc_last = [data |-> 0, ctl |-> 0]

PushResult(res, trbs, index, cycle) ==
    [n |-> cmd_calls, res |-> res, ptr |-> cmd_snap.index,
     flipped |-> (cycle # cmd_snap.cycle),
     undrained |-> cmd_snap.undrained,
     changed |-> (trbs # cmd_snap.trb \/ index # cmd_snap.index \/ cycle # cmd_snap.cycle),
     ours |-> cmd_snap.cycle]

(* push, lines 108-115: the full test, and src stamped with our cycle.     *)
(* The call is the next command TRB; its id is the number of the call.     *)
PushBegin(maxOutstanding) ==
    /\ cmd_pc = "idle"
    /\ cmd_calls < MaxPush
    /\ Outstanding < maxOutstanding
    /\ cmd_calls' = cmd_calls + 1
    /\ cmd_snap' = [trb |-> cmd_trb, index |-> cmd_index, cycle |-> cmd_cycle,
                    undrained |-> (Outstanding >= NUM_TRB - 1)]
    /\ IF RingIsFull(cmd_trb, cmd_index, cmd_cycle)
       THEN /\ cmd_last' = [n |-> cmd_calls + 1, res |-> "Command Ring is Full",
                            ptr |-> cmd_index, flipped |-> FALSE,
                            undrained |-> (Outstanding >= NUM_TRB - 1),
                            changed |-> FALSE, ours |-> cmd_cycle]
            /\ UNCHANGED <<cmd_pc, cmd_src>>
       ELSE /\ cmd_pc' = "write"
            /\ cmd_src' = [id |-> cmd_calls + 1, left |-> {"data", "control"}]
            /\ UNCHANGED cmd_last
    /\ UNCHANGED <<cmd_trb, cmd_index, cmd_cycle, xhc_index, xhc_ccs, xhc_consumed, xhc_last>>
    /\ UNCHANGED exceptCmd

(* push, line 117: ring.write_current(src), a volatile store of 16 bytes;  *)
(* the two 8-byte halves reach memory one after the other, in either order *)
PushWriteHalf ==
    /\ cmd_pc = "write"
    /\ \E half \in cmd_src.left :
          /\ cmd_trb' = [cmd_trb EXCEPT ![cmd_index] =
                            IF half = "data"
                            THEN [@ EXCEPT !.data = cmd_src.id]
                            ELSE [@ EXCEPT !.ctl = cmd_src.id, !.type = "Command",
                                           !.cycle = StampCycle(cmd_cycle)]]
          /\ cmd_src' = [cmd_src EXCEPT !.left = @ \ {half}]
          /\ cmd_pc' = IF cmd_src.left = {half} THEN "advance" ELSE "write"
    /\ UNCHANGED <<cmd_index, cmd_cycle, cmd_snap, cmd_calls, cmd_last,
                   xhc_index, xhc_ccs, xhc_consumed, xhc_last>>
    /\ UNCHANGED exceptCmd

(* push, line 118: ring.advance_index(!self.cycle_state_ours)? *)
PushAdvance ==
    /\ cmd_pc = "advance"
    /\ LET r == advance_index([trb |-> cmd_trb, index |-> cmd_index], ~cmd_cycle)
       IN  /\ cmd_trb' = r.trb
           /\ cmd_index' = r.index
           /\ IF r.ok
              THEN /\ cmd_pc' = "link"
                   /\ UNCHANGED cmd_last
              ELSE /\ cmd_pc' = "idle"
                   /\ cmd_last' = PushResult("cycle state does not change",
                                             r.trb, r.index, cmd_cycle)
    /\ UNCHANGED <<cmd_cycle, cmd_src, cmd_snap, cmd_calls,
                   xhc_index, xhc_ccs, xhc_consumed, xhc_last>>
    /\ UNCHANGED exceptCmd

(* push, lines 119-125: skip the Link TRB and toggle our cycle; Ok(dst_ptr) *)
PushLink ==
    /\ cmd_pc = "link"
    /\ IF AtLink(cmd_trb, cmd_index)
       THEN LET r == advance_index([trb |-> cmd_trb, index |-> cmd_index], ~cmd_cycle)
            IN  /\ cmd_trb' = r.trb
                /\ cmd_index' = r.index
                /\ cmd_cycle' = IF r.ok THEN ~cmd_cycle ELSE cmd_cycle
                /\ cmd_last' = PushResult(IF r.ok THEN "ok" ELSE "cycle state does not change",
                                          r.trb, r.index, cmd_cycle')
       ELSE /\ cmd_last' = PushResult("ok", cmd_trb, cmd_index, cmd_cycle)
            /\ UNCHANGED <<cmd_trb, cmd_index, cmd_cycle>>
    /\ cmd_pc' = "idle"
    /\ UNCHANGED <<cmd_src, cmd_snap, cmd_calls, xhc_index, xhc_ccs, xhc_consumed, xhc_last>>
    /\ UNCHANGED exceptCmd

(* The controller: it executes the TRB at its dequeue pointer when that    *)
(* TRB's cycle bit equals its consumer cycle state; a Link TRB sends it    *)
(* back to slot 0 and toggles the consumer cycle state.                    *)
XhcStep ==
    /\ cycle_state(cmd_trb[xhc_index]) = xhc_ccs
    /\ IF trb_type(cmd_trb[xhc_index]) = "Link"
       THEN /\ xhc_index' = 0
            /\ xhc_ccs' = ~xhc_ccs
            /\ UNCHANGED <<xhc_consumed, xhc_last>>
       ELSE /\ xhc_index' = (xhc_index + 1) % NUM_TRB
            /\ xhc_consumed' = xhc_consumed + 1
            /\ xhc_last' = [data |-> cmd_trb[xhc_index].data, ctl |-> cmd_trb[xhc_index].ctl]
            /\ UNCHANGED xhc_ccs
    /\ UNCHANGED <<cmd_trb, cmd_index, cmd_cycle, cmd_pc, cmd_src, cmd_snap, cmd_calls, cmd_last>>
    /\ UNCHANGED exceptCmd

(* software pushes while at most 15 pushed TRBs are outstanding: also into *)
(* a ring of which the controller has executed nothing (15 outstanding)    *)
Push == PushBegin(NUM_TRB)

(* software pushes only while fewer than 15 pushed TRBs are outstanding *)
PushBounded == PushBegin(NUM_TRB - 1)

(* TransferRing::new(), lines 142-166 *)
TransferRingNew == [i \in Slots |-> IF i = NUM_TRB - 1 THEN trb_link ELSE NormalTrb(i)]

InitXfer ==
    /\ xfer_trb = TransferRingNew
    /\ xfer_index = 0
    /\ xfer_cycle = FALSE
    /\ xfer_deq = 0
    /\ xfer_filled = FALSE
    /\ xfer_count = 0
    /\ xfer_last = [op |-> "new", ptr |-> 0, res |-> "ok"]

(* fill_ring, lines 177-182: the ring is full when advancing the enqueue   *)
(* index, wrapped at num_trbs() - 1, makes it equal to the dequeue index   *)
FillFullAtDequeue(index, deq) == index % (NUM_TRB - 1) = deq

FillFull(index, deq) == (index + 1) % (NUM_TRB - 1) = deq

(* TransferRing::fill_ring, lines 167-187: the loop *)
RECURSIVE fill_ring(_, _, _)
fill_ring(ring, deq, ours) ==
    IF FillFull(ring.index, deq) THEN [ok |-> TRUE, trb |-> ring.trb, index |-> ring.index]
    ELSE LET r == advance_index(ring, ~ours)
         IN  IF r.ok THEN fill_ring([trb |-> r.trb, index |-> r.index], deq, ours) ELSE r

FillRing ==
    /\ LET r == fill_ring([trb |-> xfer_trb, index |-> xfer_index], xfer_deq, xfer_cycle)
       IN  /\ xfer_trb' = r.trb
           /\ xfer_index' = r.index
           /\ xfer_last' = [op |-> "fill_ring", ptr |-> 0,
                            res |-> IF r.ok THEN "ok" ELSE "cycle state does not change"]
    /\ xfer_filled' = TRUE
    /\ UNCHANGED <<xfer_cycle, xfer_deq, xfer_count>>
    /\ UNCHANGED exceptXfer

(* TransferRing::dequeue_trb(trb_ptr), lines 188-204; trb_ptr is given as  *)
(* the slot it is the address of.  The result is the ring after the call.  *)
dequeue_trb(t, trb_ptr) ==
    IF t.deq # trb_ptr
    THEN [t EXCEPT !.res = "unexpected trb ptr"]
    ELSE LET deq == (t.deq + 1) % (NUM_TRB - 1)
             r1  == advance_index([trb |-> t.trb, index |-> t.index], ~t.cycle)
             r2  == advance_index([trb |-> r1.trb, index |-> r1.index], ~t.cycle)
         IN  IF ~r1.ok
             THEN [t EXCEPT !.deq = deq, !.res = "cycle state does not change"]
             ELSE IF ~AtLink(r1.trb, r1.index)
             THEN [trb |-> r1.trb, index |-> r1.index, cycle |-> t.cycle, deq |-> deq,
                   res |-> "ok"]
             ELSE IF ~r2.ok
             THEN [trb |-> r1.trb, index |-> r1.index, cycle |-> t.cycle, deq |-> deq,
                   res |-> "cycle state does not change"]
             ELSE [trb |-> r2.trb, index |-> r2.index, cycle |-> ~t.cycle, deq |-> deq,
                   res |-> "ok"]

(* attach_usb_device hands dequeue_trb the pointer a Transfer Event        *)
(* carries; the rings are filled before the first event is awaited         *)
DequeueTrb ==
    /\ xfer_filled
    /\ xfer_count < MaxDequeue
    /\ \E trb_ptr \in Slots :
          LET r == dequeue_trb([trb |-> xfer_trb, index |-> xfer_index, cycle |-> xfer_cycle,
                                deq |-> xfer_deq, res |-> "ok"], trb_ptr)
          IN  /\ xfer_trb' = r.trb
              /\ xfer_index' = r.index
              /\ xfer_cycle' = r.cycle
              /\ xfer_deq' = r.deq
              /\ xfer_count' = IF r.res = "ok" THEN xfer_count + 1 ELSE xfer_count
              /\ xfer_last' = [op |-> "dequeue_trb", ptr |-> trb_ptr, res |-> r.res]
    /\ UNCHANGED xfer_filled
    /\ UNCHANGED exceptXfer

----------------------------------------------------------------------------
(* The Event ring (os/src/xhci/ring.rs, EventRing) *)

RECURSIVE BitAnd(_, _, _)
(* a & b on the low n bits *)
BitAnd(a, b, n) ==
    IF n = 0 THEN 0
    ELSE 2 * BitAnd(a \div 2, b \div 2, n - 1) + (IF a % 2 = 1 /\ b % 2 = 1 THEN 1 ELSE 0)

RECURSIVE BitOr(_, _, _)
(* a | b on the low n bits *)
BitOr(a, b, n) ==
    IF n = 0 THEN 0
    ELSE 2 * BitOr(a \div 2, b \div 2, n - 1) + (IF a % 2 = 1 \/ b % 2 = 1 THEN 1 ELSE 0)

(* TrbRing is #[repr(C, align(4096))] and a TRB is 16 bytes: the address *)
(* of slot i of the Event ring, TrbRing::current_ptr and phys_addr         *)
RING_ALIGN == 4096
EventRingBase == 3 * RING_ALIGN
EvSlotAddr(i) == EventRingBase + 16 * i

(* pop, line 250: the value written is eptr or'ed with the low 4 bits    *)
(* read from the register; ERDP is a 64-bit register of which the model   *)
(* keeps the low 20 bits                                                   *)
ErdpDropsLowBits(eptr, erdp) == eptr
ErdpValue(eptr, erdp) == BitOr(eptr, BitAnd(erdp, 15, 4), 20)

(* TrbRing::advance_index_notoggle, lines 49-55 *)
advance_index_notoggle(ring, cycle_ours) ==
    IF cycle_state(ring.trb[ring.index]) # cycle_ours
    THEN [ok |-> FALSE, trb |-> ring.trb, index |-> ring.index]
    ELSE [ok |-> TRUE, trb |-> ring.trb, index |-> (ring.index + 1) % NUM_TRB]

(* EventRing::has_next_event, lines 238-240 *)
has_next_event(trbs, index, ours) == cycle_state(trbs[index]) = ours

(* pop: `if self.ring.as_ref().current_index() == 0`, line 252 *)
NeverWrapped(index) == FALSE

WrappedToZero(index) == index = 0

(* the events written and not yet returned by pop *)
EvPending == xhc_ev_written - ev_popped

(* EventRing::new, lines 217-228: a zeroed ring, cycle_state_ours = true;  *)
(* the controller starts writing at slot 0 with producer cycle state 1     *)
InitEv ==
    /\ ev_trb = [i \in Slots |-> ZeroTrb]
    /\ ev_index = 0
    /\ ev_cycle = TRUE
    /\ ev_erdp = EvSlotAddr(0)   \* init_irs: irs.erdp = ring.ring_phys_addr()
    /\ ev_pc = "idle"
    /\ ev_e = [trb |-> ZeroTrb, ptr |-> 0, present |-> FALSE, unpopped |-> FALSE]
    /\ ev_popped = 0
    /\ ev_last = [res |-> "new", id |-> 0, present |-> FALSE, unpopped |-> FALSE]
    /\ xhc_ev_enq = 0
    /\ xhc_ev_pcs = TRUE
    /\ xhc_ev_written = 0

(* EventRing::pop, lines 241-247: the test, the read of the current TRB    *)
(* and advance_index_notoggle                                              *)
PopBegin ==
    /\ ev_pc = "idle"
    /\ LET present == has_next_event(ev_trb, ev_index, ev_cycle)
           r == advance_index_notoggle([trb |-> ev_trb, index |-> ev_index], ev_cycle)
       IN  IF ~present
           THEN /\ ev_last' = [res |-> "none", id |-> 0, present |-> FALSE,
                               unpopped |-> EvPending > 0]
                /\ UNCHANGED <<ev_index, ev_pc, ev_e>>
           ELSE IF ~r.ok
           THEN /\ ev_last' = [res |-> "cycle state mismatch", id |-> 0, present |-> TRUE,
                               unpopped |-> EvPending > 0]
                /\ UNCHANGED <<ev_index, ev_pc, ev_e>>
           ELSE /\ ev_e' = [trb |-> ev_trb[ev_index], ptr |-> ev_index,
                            present |-> TRUE, unpopped |-> EvPending > 0]
                /\ ev_index' = r.index
                /\ ev_pc' = "erdp"
                /\ UNCHANGED ev_last
    /\ UNCHANGED <<ev_trb, ev_cycle, ev_erdp, ev_popped, xhc_ev_enq, xhc_ev_pcs,
                   xhc_ev_written>>
    /\ UNCHANGED exceptEv

(* EventRing::pop, lines 248-255: the ERDP write, the flip at the wrap and *)
(* the return of the event                                                 *)
PopFinish ==
    /\ ev_pc = "erdp"
    /\ ev_erdp' = ErdpValue(EvSlotAddr(ev_e.ptr), ev_erdp)
    /\ ev_cycle' = IF WrappedToZero(ev_index) THEN ~ev_cycle ELSE ev_cycle
    /\ ev_popped' = ev_popped + 1
    /\ ev_last' = [res |-> "some", id |-> ev_e.trb.data, present |-> ev_e.present,
                   unpopped |-> ev_e.unpopped]
    /\ ev_pc' = "idle"
    /\ UNCHANGED <<ev_trb, ev_index, ev_e, xhc_ev_enq, xhc_ev_pcs, xhc_ev_written>>
    /\ UNCHANGED exceptEv

(* The controller: it writes the next event at its enqueue pointer with    *)
(* its producer cycle state, toggles that state when the pointer wraps,    *)
(* and never writes over an event software has not popped; it may set the  *)
(* Event Handler Busy bit of ERDP as it does so.                           *)
XhcEvent ==
    /\ xhc_ev_written < MaxEvents
    /\ EvPending < NUM_TRB
    /\ ev_trb' = [ev_trb EXCEPT ![xhc_ev_enq] =
                      Trb(xhc_ev_written + 1, xhc_ev_written + 1, "Event", xhc_ev_pcs)]
    /\ xhc_ev_enq' = (xhc_ev_enq + 1) % NUM_TRB
    /\ xhc_ev_pcs' = IF xhc_ev_enq = NUM_TRB - 1 THEN ~xhc_ev_pcs ELSE xhc_ev_pcs
    /\ xhc_ev_written' = xhc_ev_written + 1
    /\ \E ehb \in BOOLEAN :   \* Event Handler Busy, bit 3 of ERDP
          ev_erdp' = IF ehb THEN BitOr(ev_erdp, 8, 20) ELSE ev_erdp
    /\ UNCHANGED <<ev_index, ev_cycle, ev_pc, ev_e, ev_popped, ev_last>>
    /\ UNCHANGED exceptEv

----------------------------------------------------------------------------
(* Event waiters (os/src/xhci/future.rs) *)

Futures == 1..MaxFutures

(* Option::None of a slot id or a TRB address, which are never negative *)
None == -1

CommandCompletionEvent == "CommandCompletionEvent"
TransferEvent == "TransferEvent"

(* slot ids and TRB addresses that occur *)
SlotIds == {5, 6}
TrbAddrs == {4096, 4112}

(* an event TRB as far as matches() reads it: trb_type(), slot_id(), data() *)
EventTrb(type, slot, data) == [type |-> type, slot |-> slot, data |-> data]

EventTrbs == { EventTrb(t, s, d) : t \in {CommandCompletionEvent, TransferEvent},
                                   s \in SlotIds, d \in TrbAddrs }

(* GenericTrbEntry::default() *)
DefaultTrb == EventTrb("Reserved", 0, 0)

(* EventWaitCond, lines 20-24 *)
EventWaitCond(type, addr, slot) == [trb_type |-> type, trb_addr |-> addr, slot |-> slot]

(* the conditions the constructors build (lines 91-126), and one with both *)
(* the slot and the address given                                          *)
WaitConds == { EventWaitCond(TransferEvent, None, 5),
               EventWaitCond(TransferEvent, 4096, None),
               EventWaitCond(TransferEvent, 4096, 5) }

(* wait_ms, in ticks of the main counter *)
WaitTicks == {1, 2}

(* EventWaitInfo::matches, lines 33-48 *)
MatchesTypeOnly(cond, trb) == trb.type = cond.trb_type

matches(cond, trb) ==
    IF trb.type # cond.trb_type THEN FALSE
    ELSE IF cond.slot # None /\ trb.slot # cond.slot THEN FALSE
    ELSE IF cond.trb_addr # None /\ trb.data # cond.trb_addr THEN FALSE
    ELSE TRUE

(* EventWaitInfo::resolve, lines 49-58 *)
ResolveFlagOnly(w, trb) == [w EXCEPT !.fulfilled = TRUE, !.by = trb]

resolve(w, trb) == [w EXCEPT !.event_trb = trb, !.fulfilled = TRUE, !.by = trb]

(* EventFuture::poll, lines 131-141 *)
PollFulfilledFirst(w, main_counter) ==
    IF w.fulfilled THEN [res |-> "ReadySome", trb |-> w.event_trb]
    ELSE IF w.time_out < main_counter THEN [res |-> "ReadyNone", trb |-> DefaultTrb]
    ELSE [res |-> "Pending", trb |-> DefaultTrb]

poll(w, main_counter) ==
    IF w.time_out < main_counter THEN [res |-> "ReadyNone", trb |-> DefaultTrb]
    ELSE IF w.fulfilled THEN [res |-> "ReadySome", trb |-> w.event_trb]
    ELSE [res |-> "Pending", trb |-> DefaultTrb]

NoFuture == [st |-> "unused", cond |-> EventWaitCond(TransferEvent, None, None), time_out |-> 0,
             fulfilled |-> FALSE, event_trb |-> DefaultTrb, by |-> DefaultTrb]

RECURSIVE FirstMatch(_, _)
(* the first registered waiter that matches trb, 0 when there is none *)
FirstMatch(list, trb) ==
    IF list = <<>> THEN 0
    ELSE IF matches(wi[Head(list)].cond, trb) THEN Head(list)
    ELSE FirstMatch(Tail(list), trb)

Without(list, id) == SelectSeq(list, LAMBDA x : x # id)

InitFut ==
    /\ hpet = 0
    /\ waiters = <<>>
    /\ wi = [i \in Futures |-> NoFuture]
    /\ fut_last = [op |-> "none", id |-> 0, res |-> "none", trb |-> DefaultTrb,
                   late |-> FALSE, fulfilled |-> FALSE]

(* EventFuture::new_with_timeout, lines 72-90 *)
NewWithTimeout(id, wait, cond) ==
    /\ wi[id].st = "unused"
    /\ wi' = [wi EXCEPT ![id] = [st |-> "waiting", cond |-> cond, time_out |-> hpet + wait,
                                 fulfilled |-> FALSE, event_trb |-> DefaultTrb,
                                 by |-> DefaultTrb]]
    /\ waiters' = Append(waiters, id)
    /\ fut_last' = [op |-> "new", id |-> id, res |-> "ok", trb |-> DefaultTrb,
                    late |-> FALSE, fulfilled |-> FALSE]
    /\ UNCHANGED hpet
    /\ UNCHANGED exceptFut

NewFuture == \E id \in Futures, wait \in WaitTicks, cond \in WaitConds :
                 NewWithTimeout(id, wait, cond)

(* Event dispatch: a popped TRB resolves the first registered waiter it    *)
(* matches, which then leaves the list                                     *)
Dispatch ==
    \E trb \in EventTrbs :
        LET id == FirstMatch(waiters, trb)
        IN  /\ IF id = 0
               THEN UNCHANGED <<wi, waiters>>
               ELSE /\ wi' = [wi EXCEPT ![id] = resolve(@, trb)]
                    /\ waiters' = Without(waiters, id)
            /\ fut_last' = [op |-> "dispatch", id |-> id,
                            res |-> IF id = 0 THEN "unmatched" ELSE "resolved",
                            trb |-> trb, late |-> FALSE, fulfilled |-> FALSE]
            /\ UNCHANGED hpet
            /\ UNCHANGED exceptFut

(* the executor polls a future that has not completed; a future that       *)
(* returned Ready is dropped, and its waiter leaves the list               *)
Poll ==
    \E id \in Futures :
        /\ wi[id].st = "waiting"
        /\ LET r == poll(wi[id], hpet)
           IN  /\ fut_last' = [op |-> "poll", id |-> id, res |-> r.res, trb |-> r.trb,
                               late |-> hpet > wi[id].time_out,
                               fulfilled |-> wi[id].fulfilled]
               /\ IF r.res = "Pending"
                  THEN UNCHANGED <<wi, waiters>>
                  ELSE /\ wi' = [wi EXCEPT ![id].st = "done"]
                       /\ waiters' = Without(waiters, id)
        /\ UNCHANGED hpet
        /\ UNCHANGED exceptFut

(* the HPET main counter counts up *)
Tick ==
    /\ hpet < MaxTicks
    /\ hpet' = hpet + 1
    /\ UNCHANGED <<waiters, wi, fut_last>>
    /\ UNCHANGED exceptFut

----------------------------------------------------------------------------
(* The network manager (os/src/net/manager.rs) *)

Ifaces == {1, 2}

(* Option<IpV4Addr>::None *)
NoIp == <<>>

IpSelf == <<10, 0, 2, 15>>
IpRouter == <<10, 0, 2, 2>>
IpDns == <<10, 0, 2, 3>>
IpFar == <<8, 8, 8, 8>>
Mask24 == <<255, 255, 255, 0>>

(* IpV4Addr::network_prefix(mask) *)
network_prefix(ip, mask) == [k \in 1..4 |-> BitAnd(ip[k], mask[k], 8)]

(* NetworkInterface::ethernet_addr of an interface, and the address an ARP *)
(* response announces for an IP                                            *)
IfaceMac(i) == 100 + i
MacOf(ip) == 200 + ip[4]

(* DHCP option tags, manager.rs lines 11-19 *)
DHCP_OPT_MESSAGE_TYPE_PADDING == 0
DHCP_OPT_NETMASK == 1
DHCP_OPT_ROUTER == 3
DHCP_OPT_DNS == 6
DHCP_OPT_MESSAGE_TYPE == 53
DHCP_OPT_RAPID_COMMIT == 80
DHCP_OPT_MESSAGE_TYPE_END == 255

Opt(tag, data) == <<tag, Len(data)>> \o data

(* A DHCP packet as handle_rx_dhcp_client reads it: is_boot_reply(),       *)
(* yiaddr() and the option bytes behind the fixed part; `carries` is what  *)
(* its tag-length-value options hold                                       *)
DhcpPacket(reply, yiaddr, options, carries) ==
    [kind |-> "dhcp", reply |-> reply, yiaddr |-> yiaddr, options |-> options,
     carries |-> carries]

NoLease == [self_ip |-> NoIp, netmask |-> NoIp, router |-> NoIp, dns |-> NoIp]

CanonicalLease == [self_ip |-> IpSelf, netmask |-> Mask24, router |-> IpRouter, dns |-> IpDns]

CanonicalOptions ==
    Opt(DHCP_OPT_NETMASK, Mask24) \o Opt(DHCP_OPT_ROUTER, IpRouter) \o Opt(DHCP_OPT_DNS, IpDns)

DhcpPackets ==
    { \* the canonical offer
      DhcpPacket(TRUE, IpSelf, CanonicalOptions \o <<DHCP_OPT_MESSAGE_TYPE_END>>,
                 CanonicalLease),
      \* message type first, padding in between
      DhcpPacket(TRUE, IpSelf,
                 Opt(DHCP_OPT_MESSAGE_TYPE, <<2>>) \o <<DHCP_OPT_MESSAGE_TYPE_PADDING>>
                     \o CanonicalOptions \o <<DHCP_OPT_MESSAGE_TYPE_END>>,
                 CanonicalLease),
      \* a zero-length option (Rapid Commit) in front
      DhcpPacket(TRUE, IpSelf,
                 Opt(DHCP_OPT_RAPID_COMMIT, <<>>) \o CanonicalOptions
                     \o <<DHCP_OPT_MESSAGE_TYPE_END>>,
                 CanonicalLease),
      \* a router option whose declared length exceeds the remaining bytes
      DhcpPacket(TRUE, IpSelf,
                 Opt(DHCP_OPT_NETMASK, Mask24) \o <<DHCP_OPT_ROUTER, 9>> \o IpRouter,
                 NoLease),
      \* a request (not a boot reply) with other values
      DhcpPacket(FALSE, IpDns,
                 Opt(DHCP_OPT_NETMASK, <<255, 0, 0, 0>>) \o Opt(DHCP_OPT_ROUTER, IpDns)
                     \o Opt(DHCP_OPT_DNS, IpRouter) \o <<DHCP_OPT_MESSAGE_TYPE_END>>,
                 NoLease) }

(* the frames an interface's pop_packet hands out; "empty" is its Err *)
Frames ==
    {[kind |-> "empty"], [kind |-> "unknown"], [kind |-> "arp_invalid"],
     [kind |-> "arp_request", ip |-> IpFar]}
        \cup { [kind |-> "arp_response", ip |-> ip] : ip \in {IpRouter, IpDns} }
        \cup DhcpPackets

(* IpV4Addr::from_slice(&data): the first four bytes, if there are four *)
IpFromSlice(data) == IF Len(data) >= 4 THEN SubSeq(data, 1, 4) ELSE NoIp

RECURSIVE ParseOptions(_, _, _)
(* handle_rx_dhcp_client, lines 137-191: the option loop, from byte i on *)
ParseOptions(ls, opts, i) ==
    IF i > Len(opts) THEN [res |-> "ok", lease |-> ls]
    ELSE IF opts[i] = DHCP_OPT_MESSAGE_TYPE_PADDING THEN ParseOptions(ls, opts, i + 1)
    ELSE IF opts[i] = DHCP_OPT_MESSAGE_TYPE_END THEN [res |-> "ok", lease |-> ls]
    ELSE IF i + 1 > Len(opts) THEN [res |-> "ok", lease |-> ls]
    ELSE LET op   == opts[i]
             len  == opts[i + 1]
             rest == Len(opts) - (i + 1)
             data == SubSeq(opts, i + 2, i + 1 + (IF len <= rest THEN len ELSE rest))
             ip   == IpFromSlice(data)
             ls1  == IF ip = NoIp THEN ls
                     ELSE IF op = DHCP_OPT_NETMASK THEN [ls EXCEPT !.netmask = ip]
                     ELSE IF op = DHCP_OPT_ROUTER THEN [ls EXCEPT !.router = ip]
                     ELSE IF op = DHCP_OPT_DNS THEN [ls EXCEPT !.dns = ip]
                     ELSE ls
         IN  IF len = 0 THEN [res |-> "ok", lease |-> ls]
             ELSE IF op = DHCP_OPT_MESSAGE_TYPE /\ data = <<>>
             THEN [res |-> "panic", lease |-> ls]
             ELSE IF rest < len THEN [res |-> "Invalid op data len", lease |-> ls1]
             ELSE ParseOptions(ls1, opts, i + 2 + len)

(* handle_rx_dhcp_client, lines 124-192 *)
handle_rx_dhcp_client(ls, packet) ==
    IF ~packet.reply THEN [res |-> "ok", lease |-> ls]
    ELSE ParseOptions([ls EXCEPT !.self_ip = packet.yiaddr], packet.options, 1)

(* handle_rx_arp: `if arp.is_response()`, line 229 *)
AnyArpPacket(frame) == frame.kind \in {"arp_response", "arp_request"}
is_response(frame) == frame.kind = "arp_response"

(* handle_receive, lines 242-259, with handle_rx_udp and handle_rx_arp:    *)
(* the Network state after the frame, and the result                       *)
handle_receive(st, frame, iface) ==
    IF is_response(frame)
    THEN [st EXCEPT !.arp = [ip \in DOMAIN st.arp \cup {frame.ip} |->
                                IF ip = frame.ip
                                THEN [mac |-> MacOf(frame.ip), iface |-> iface]
                                ELSE st.arp[ip]]]
    ELSE IF frame.kind = "arp_invalid"
    THEN [st EXCEPT !.res = "handle_rx_arp: Not a valid ARP Packet"]
    ELSE IF frame.kind = "dhcp"
    THEN LET r == handle_rx_dhcp_client(st.lease, frame)
         IN  [st EXCEPT !.res = r.res, !.lease = r.lease, !.dhcp = frame, !.before = st.lease]
    ELSE st

RECURSIVE process_rx(_, _, _)
(* process_rx, lines 327-338: interface k of the list onwards; frames[k]   *)
(* is what interface k's pop_packet returns; st.handled lists the frames   *)
(* popped and handed to handle_receive                                     *)
process_rx(st, frames, k) ==
    IF k > Len(interfaces) THEN st
    ELSE IF interfaces[k] \notin iface_alive \/ frames[k].kind = "empty"
    THEN process_rx(st, frames, k + 1)
    ELSE LET popped == [iface |-> interfaces[k], frame |-> frames[k]]
             st1 == handle_receive([st EXCEPT !.handled = Append(@, popped)],
                                   frames[k], interfaces[k])
         IN  IF st1.res # "ok" THEN st1 ELSE process_rx(st1, frames, k + 1)

NoDhcp == [kind |-> "none"]

NetStep(op) == [op |-> op, res |-> "ok", had |-> FALSE, live |-> <<>>, pushed |-> <<>>,
                pkt |-> NoIp, hop |-> 0, dhcp |-> NoDhcp, before |-> NoLease, rx |-> <<>>]

(* Network::new, lines 64-75; network_manager_thread is about to start *)
InitNet ==
    /\ net_pc = "probe"
    /\ interfaces = <<>>
    /\ iface_alive = Ifaces
    /\ interface_has_added = FALSE
    /\ lease = NoLease
    /\ ip_tx_queue = <<>>
    /\ arp_table = [ip \in {} |-> [mac |-> 0, iface |-> 0]]
    /\ net_last = NetStep("none")

(* The other tasks run while the manager sleeps in TimeoutFuture.          *)
(* Network::register_interface, lines 81-85 *)
RegisterInterface ==
    /\ net_pc = "probe"
    /\ \E i \in Ifaces :
          /\ i \in iface_alive
          /\ \A k \in 1..Len(interfaces) : interfaces[k] # i
          /\ interfaces' = Append(interfaces, i)
    /\ interface_has_added' = TRUE
    /\ UNCHANGED <<net_pc, iface_alive, lease, ip_tx_queue, arp_table, net_last>>
    /\ UNCHANGED exceptNet

(* the owner of an interface drops it: its weak references stop upgrading *)
DropInterface ==
    /\ net_pc = "probe"
    /\ \E i \in iface_alive :
          /\ \E k \in 1..Len(interfaces) : interfaces[k] = i
          /\ iface_alive' = iface_alive \ {i}
    /\ UNCHANGED <<net_pc, interfaces, interface_has_added, lease, ip_tx_queue, arp_table,
                   net_last>>
    /\ UNCHANGED exceptNet

SendIpPacketFrontUpTo(max) ==
    /\ net_pc = "probe"
    /\ Len(ip_tx_queue) < max
    /\ \E dst \in {IpDns, IpFar} : ip_tx_queue' = <<dst>> \o ip_tx_queue
    /\ UNCHANGED <<net_pc, interfaces, iface_alive, interface_has_added, lease, arp_table,
                   net_last>>
    /\ UNCHANGED exceptNet

(* Network::send_ip_packet, lines 107-109, while fewer than max packets wait *)
SendIpPacketUpTo(max) ==
    /\ net_pc = "probe"
    /\ Len(ip_tx_queue) < max
    /\ \E dst \in {IpDns, IpFar} : ip_tx_queue' = Append(ip_tx_queue, dst)
    /\ UNCHANGED <<net_pc, interfaces, iface_alive, interface_has_added, lease, arp_table,
                   net_last>>
    /\ UNCHANGED exceptNet

SendIpPacket == SendIpPacketUpTo(MaxTxQueue)

(* ping is run again before the manager has sent the first packet *)
SendIpPacketBurst == SendIpPacketUpTo(MaxTxBurst)

(* the packets probe_interfaces pushes to one interface, lines 273-280 *)
ProbePackets(i) == <<[iface |-> i, kind |-> "arp_request", tell |-> IpSelf, who_has |-> IpRouter],
                     [iface |-> i, kind |-> "dhcp_discover", tell |-> NoIp, who_has |-> NoIp]>>

RECURSIVE ProbeAll(_)
ProbeAll(list) == IF list = <<>> THEN <<>> ELSE ProbePackets(Head(list)) \o ProbeAll(Tail(list))

LiveInterfaces == SelectSeq(interfaces, LAMBDA i : i \in iface_alive)

(* probe_interfaces, lines 261-285; push_packet number failAt returns Err  *)
(* (0: none does)                                                          *)
ProbeInterfaces ==
    /\ net_pc = "probe"
    /\ \E failAt \in 0..(2 * Len(LiveInterfaces)) :
          LET all    == IF interface_has_added THEN ProbeAll(LiveInterfaces) ELSE <<>>
              failed == failAt > 0 /\ failAt <= Len(all)
              pushed == IF failed THEN SubSeq(all, 1, failAt) ELSE all
          IN  /\ net_last' = [NetStep("probe") EXCEPT
                                 !.res = IF failed THEN "push_packet failed" ELSE "ok",
                                 !.had = interface_has_added,
                                 !.live = LiveInterfaces,
                                 !.pushed = pushed]
              /\ net_pc' = IF failed THEN "returned" ELSE "tx"
    /\ interface_has_added' = FALSE
    /\ UNCHANGED <<interfaces, iface_alive, lease, ip_tx_queue, arp_table>>
    /\ UNCHANGED exceptNet

(* process_tx: the IP whose ARP entry is the next hop, lines 292-301 *)
NextHopDstOnly(ls, table, dst) == IF dst \in DOMAIN table THEN dst ELSE NoIp

NextHop(ls, table, dst) ==
    IF network_prefix(ls.self_ip, ls.netmask) = network_prefix(dst, ls.netmask)
    THEN (IF dst \in DOMAIN table THEN dst ELSE NoIp)
    ELSE (IF ls.router # NoIp /\ ls.router \in DOMAIN table THEN ls.router ELSE NoIp)

(* process_tx, lines 287-326; the push_packet may return Err *)
ProcessTx ==
    /\ net_pc = "tx"
    /\ IF ip_tx_queue = <<>>
       THEN /\ net_last' = NetStep("tx")
            /\ net_pc' = "rx"
            /\ UNCHANGED ip_tx_queue
       ELSE /\ ip_tx_queue' = Tail(ip_tx_queue)
            /\ LET dst == Head(ip_tx_queue)
               IN  IF lease.self_ip = NoIp \/ lease.netmask = NoIp
                   THEN /\ net_last' = [NetStep("tx") EXCEPT !.pkt = dst, !.res = "dropped"]
                        /\ net_pc' = "rx"
                   ELSE LET hop == NextHop(lease, arp_table, dst)
                        IN  IF hop = NoIp
                            THEN /\ net_last' = [NetStep("tx") EXCEPT !.pkt = dst,
                                                    !.res = "no route"]
                                 /\ net_pc' = "rx"
                            ELSE IF arp_table[hop].iface \notin iface_alive
                            THEN /\ net_last' = [NetStep("tx") EXCEPT !.pkt = dst,
                                                    !.hop = arp_table[hop].iface,
                                                    !.res = "dropped"]
                                 /\ net_pc' = "rx"
                            ELSE \E ok \in BOOLEAN :
                                 /\ net_last' = [NetStep("tx") EXCEPT
                                       !.pkt = dst,
                                       !.hop = arp_table[hop].iface,
                                       !.live = <<arp_table[hop].iface>>,
                                       !.res = IF ok THEN "ok" ELSE "push_packet failed",
                                       !.pushed = <<[iface |-> arp_table[hop].iface,
                                                     kind |-> "ipv4",
                                                     src |-> lease.self_ip,
                                                     dst |-> dst,
                                                     eth_dst |-> arp_table[hop].mac,
                                                     eth_src |-> IfaceMac(arp_table[hop].iface),
                                                     eth_type |-> "ipv4"]>>]
                                 /\ net_pc' = IF ok THEN "rx" ELSE "returned"
    /\ UNCHANGED <<interfaces, iface_alive, interface_has_added, lease, arp_table>>
    /\ UNCHANGED exceptNet

(* process_rx and the end of the iteration, lines 345-346: an Err leaves   *)
(* the loop through `?`, Ok goes to sleep for 100 ms and starts over       *)
(* (pop_packet is called on the interfaces that still upgrade only)        *)
ProcessRxFrom(received) ==
    /\ net_pc = "rx"
    /\ \E frames \in { f \in [1..Len(interfaces) -> received] :
                         \A k \in 1..Len(interfaces) :
                            interfaces[k] \notin iface_alive => f[k].kind = "empty" } :
          LET st == process_rx([res |-> "ok", lease |-> lease, arp |-> arp_table,
                                dhcp |-> NoDhcp, before |-> lease, handled |-> <<>>],
                               frames, 1)
          IN  /\ lease' = st.lease
              /\ arp_table' = st.arp
              /\ net_last' = [NetStep("rx") EXCEPT !.res = st.res, !.dhcp = st.dhcp,
                                                   !.before = st.before, !.rx = st.handled]
              /\ net_pc' = IF st.res = "ok" THEN "probe"
                           ELSE IF st.res = "panic" THEN "panicked"
                           ELSE "returned"
    /\ UNCHANGED <<interfaces, iface_alive, interface_has_added, ip_tx_queue>>
    /\ UNCHANGED exceptNet

ProcessRx == ProcessRxFrom(Frames)

(* the frames of a network that answers: nothing, the ARP responses and    *)
(* the canonical DHCP offer                                                *)
LeaseFrames ==
    { f \in Frames : \/ f.kind \in {"empty", "arp_response"}
                     \/ (f.kind = "dhcp" /\ f.reply /\ f.carries = CanonicalLease) }

ProcessRxLease == ProcessRxFrom(LeaseFrames)

----------------------------------------------------------------------------
(* The USB HID keyboard driver (os/src/usb_hid_keyboard.rs) *)

ConfigDesc(id) == [t |-> "Config", id |-> id, triple |-> <<0, 0, 0>>]
InterfaceDesc(triple) == [t |-> "Interface", id |-> 0, triple |-> triple]
EndpointDesc(id) == [t |-> "Endpoint", id |-> id, triple |-> <<0, 0, 0>>]

(* (class, subclass, protocol) of a HID boot keyboard, line 48 *)
BootKeyboard == <<3, 1, 1>>

UsbDescriptors ==
    {ConfigDesc(1), ConfigDesc(2), InterfaceDesc(BootKeyboard), InterfaceDesc(<<3, 0, 0>>),
     EndpointDesc(1), EndpointDesc(2)}

(* the descriptor lists of an attached device *)
DescriptorLists == UNION { [1..n -> UsbDescriptors] : n \in 0..MaxDescriptors }

NoDesc == [t |-> "None", id |-> 0, triple |-> <<0, 0, 0>>]

(* `if boot_keyboard_interface.is_some() { break; }`, lines 41-43 *)
NeverBreak(st) == FALSE

BreakAtConfig(st) == st.boot_keyboard_interface # NoDesc

RECURSIVE ScanDescriptors(_, _, _)
(* init_usb_hid_keyboard, lines 38-57: the loop, from descriptor i on *)
ScanDescriptors(descriptors, i, st) ==
    IF i > Len(descriptors) THEN st
    ELSE LET d == descriptors[i]
         IN  IF d.t = "Config"
             THEN IF BreakAtConfig(st) THEN st
                  ELSE ScanDescriptors(descriptors, i + 1,
                                       [st EXCEPT !.last_config = d, !.ep_desc_list = <<>>])
             ELSE IF d.t = "Interface"
             THEN ScanDescriptors(descriptors, i + 1,
                                  IF d.triple = BootKeyboard
                                  THEN [st EXCEPT !.boot_keyboard_interface = d] ELSE st)
             ELSE IF d.t = "Endpoint"
             THEN ScanDescriptors(descriptors, i + 1,
                                  [st EXCEPT !.ep_desc_list = Append(@, d)])
             ELSE ScanDescriptors(descriptors, i + 1, st)

(* init_usb_hid_keyboard, lines 35-60: what it selects, or how it fails *)
SelectBootKeyboard(descriptors) ==
    LET st == ScanDescriptors(descriptors, 1,
                  [last_config |-> NoDesc, boot_keyboard_interface |-> NoDesc,
                   ep_desc_list |-> <<>>])
    IN  IF st.last_config = NoDesc
        THEN [res |-> "No USB KBD Boot config found", config |-> NoDesc, eps |-> <<>>]
        ELSE IF st.boot_keyboard_interface = NoDesc
        THEN [res |-> "No USB KBD Boot interface found", config |-> NoDesc, eps |-> <<>>]
        ELSE [res |-> "ok", config |-> st.last_config, eps |-> st.ep_desc_list]

(* u8 *)
UsageIds == 0..255

(* usage_id_to_char, lines 145-154; a Char carries its code point *)
usage_id_to_char(usage_id) ==
    IF usage_id = 0 THEN [kind |-> "None", ch |-> 0]
    ELSE IF usage_id >= 4 /\ usage_id <= 30 THEN [kind |-> "Char", ch |-> 97 + usage_id - 4]
    ELSE IF usage_id = 40 THEN [kind |-> "Enter", ch |-> 10]
    ELSE [kind |-> "Err", ch |-> 0]

InitKbd ==
    /\ kbd_sel = [descriptors |-> <<>>, res |-> "none", config |-> NoDesc, eps |-> <<>>]
    /\ kbd_key = [id |-> 0, kind |-> "none", ch |-> 0]

(* the device is attached: init_usb_hid_keyboard scans its descriptors *)
InitUsbHidKeyboard ==
    /\ kbd_sel.res = "none"
    /\ \E descriptors \in DescriptorLists :
          LET r == SelectBootKeyboard(descriptors)
          IN  kbd_sel' = [descriptors |-> descriptors, res |-> r.res, config |-> r.config,
                          eps |-> r.eps]
    /\ UNCHANGED kbd_key
    /\ UNCHANGED exceptKbd

(* attach_usb_device, lines 194-195: a key changed in the report *)
KeyReport ==
    /\ \E id \in UsageIds :
          LET c == usage_id_to_char(id)
          IN  kbd_key' = [id |-> id, kind |-> c.kind, ch |-> c.ch]
    /\ UNCHANGED kbd_sel
    /\ UNCHANGED exceptKbd

----------------------------------------------------------------------------
(* The report loop of attach_usb_device (os/src/usb_hid_keyboard.rs) and   *)
(* the InputManager queue (os/src/input.rs)                                 *)

(* 8-byte boot reports: modifiers, reserved, six keycodes.  The usage ids  *)
(* in them: 0 (no key), 4 ('a'), 40 (Enter) and 41, which usage_id_to_char *)
(* rejects                                                                  *)
BootReports ==
    { <<0, 0, 0, 0, 0, 0, 0, 0>>,
      <<2, 0, 0, 0, 0, 0, 0, 0>>,
      <<0, 0, 4, 0, 0, 0, 0, 0>>,
      <<0, 0, 40, 0, 0, 0, 0, 0>>,
      <<2, 0, 4, 40, 0, 0, 0, 0>>,
      <<0, 0, 41, 40, 4, 4, 40, 41>> }

(* BitSet::<32>: 32 bytes of bits, one bit for every u8 index; insert of   *)
(* every keycode of the report, lines 187-192                               *)
next_pressed(report) == {report[i] : i \in 3..8}

(* BitSet::symmetric_difference, line 193 *)
symmetric_difference(a, b) == (a \ b) \cup (b \ a)

(* KeyEvent::to_char, lines 134-142 *)
to_char(c) ==
    IF c.kind = "Char" \/ c.kind = "Enter" THEN [some |-> TRUE, ch |-> c.ch]
    ELSE [some |-> FALSE, ch |-> 0]

(* line 197: the key went from released to pressed *)
HeldCountsAsNew(prev, id) == TRUE
NewlyPressed(prev, id) == ~(id \in prev)

(* lines 194-209: the characters pushed for the changed ids, in the order  *)
(* BitSet::iter yields them (ascending)                                     *)
RECURSIVE PushedFor(_, _)
PushedFor(prev, change) ==
    IF change = {} THEN <<>>
    ELSE LET id   == CHOOSE x \in change : \A y \in change : x <= y
             c    == usage_id_to_char(id)
             rest == PushedFor(prev, change \ {id})
         IN  IF c.kind # "Err" /\ NewlyPressed(prev, id) /\ c.kind # "None"
                /\ to_char(c).some
             THEN <<to_char(c).ch>> \o rest
             ELSE rest

InitAttach ==
    /\ prev_pressed_keys = {}
    /\ input_queue = <<>>
    /\ attach_run = TRUE
    /\ attach_last = [ev |-> "none", report |-> <<>>, prev |-> {}, pushed |-> <<>>]

(* one turn of the loop on a Transfer Event, lines 170-222: the report is  *)
(* copied; the TRB is dequeued from the endpoint ring (TransferRing        *)
(* dequeue_trb above; only its result matters here, an error ends the      *)
(* function); the keys are compared and prev_pressed_keys replaced; then   *)
(* the port is looked at.  The queue is unbounded in the code; the model   *)
(* takes only the reports whose characters still fit.                      *)
AttachReport ==
    /\ attach_run
    /\ \E report \in BootReports, dequeue_ok \in BOOLEAN, ccs \in BOOLEAN :
          LET next   == next_pressed(report)
              change == symmetric_difference(prev_pressed_keys, next)
              pushed == PushedFor(prev_pressed_keys, change)
          IN  /\ Len(input_queue) + Len(pushed) <= MaxInputQueue
              /\ IF ~dequeue_ok
                 THEN /\ attach_run' = FALSE
                      /\ attach_last' = [ev |-> "dequeue failed", report |-> report,
                                         prev |-> prev_pressed_keys, pushed |-> <<>>]
                      /\ UNCHANGED <<prev_pressed_keys, input_queue>>
                 ELSE /\ input_queue' = input_queue \o pushed
                      /\ prev_pressed_keys' = next
                      /\ attach_run' = ccs
                      /\ attach_last' = [ev |-> "report", report |-> report,
                                         prev |-> prev_pressed_keys, pushed |-> pushed]
    /\ UNCHANGED exceptAttach

(* a turn of the loop on Ok(None) (timed out) or Err(e), lines 212-221 *)
AttachNoReport ==
    /\ attach_run
    /\ \E ev \in {"timeout", "error"}, ccs \in BOOLEAN :
          /\ attach_run' = ccs
          /\ attach_last' = [ev |-> ev, report |-> <<>>, prev |-> prev_pressed_keys,
                             pushed |-> <<>>]
    /\ UNCHANGED <<prev_pressed_keys, input_queue>>
    /\ UNCHANGED exceptAttach

(* InputManager::pop_input, input.rs lines 46-48 (the console task) *)
PopInput ==
    /\ input_queue # <<>>
    /\ input_queue' = Tail(input_queue)
    /\ UNCHANGED <<prev_pressed_keys, attach_run, attach_last>>
    /\ UNCHANGED exceptAttach

----------------------------------------------------------------------------
(* The context switcher (os/src/x86_64/context.rs)                          *)

(* CpuContext, lines 54-73, and the FPU area as one value *)
GPRs == {"rax", "rcx", "rdx", "rbx", "rbp", "rsi", "rdi", "r8", "r9", "r10", "r11", "r12", "r13",
         "r14", "r15"}
CpuFields == GPRs \cup {"rip", "rflags", "rsp"}
CtxFields == CpuFields \cup {"fpu"}

(* ExecutionContext::default, lines 34-39 *)
ExecutionContextDefault == [f \in CtxFields |-> 0]

(* addresses and selectors the asm block works with *)
LABEL0 == 900          \* the label `0:` of exec_app_context
OS_CTX == 600          \* CONTEXT_OS
APP_CTX_END == 700     \* the end of CONTEXT_APP
USER64_CS == 43
USER_DS == 35
KERNEL_RSP == 300
KERNEL_RFLAGS == 518
SYSRET_RFLAGS_MASK == 3964887     \* 0x3C7FD7

(* what the kernel's other registers hold when the asm block starts, and   *)
(* what the app's registers hold when it issues SYSCALL                    *)
KernelVals == {500, 501}
AppVals == {7, 8}
AppRips == {4000, 4008}
AppRsps == {8000, 7936}
AppFlags == {514}
ExitReasons == {0, 1, -1}
RetCodes == {0, 42}

(* a register file with every general-purpose register holding v *)
Regs(v, rip, rflags, rsp, fpu) ==
    [f \in CtxFields |-> IF f = "rip" THEN rip ELSE IF f = "rflags" THEN rflags
                         ELSE IF f = "rsp" THEN rsp ELSE IF f = "fpu" THEN fpu ELSE v]

(* lines 210-216: the operands the asm block is entered with *)
AsmInputs(kregs, app_rsp, app_rip) ==
    [kregs EXCEPT !["rax"] = app_rsp, !["rcx"] = USER64_CS, !["rdx"] = USER_DS,
                  !["rsi"] = OS_CTX, !["r9"] = APP_CTX_END, !["rdi"] = app_rip]

(* lines 101-123: the pushes through the swapped rsp; after `xchg rsp,rsi`  *)
(* rsi holds the kernel's rsp, and r8 is loaded with the label             *)
SaveToContextOs(c) ==
    [f \in CtxFields |-> IF f = "rip" THEN LABEL0 ELSE IF f = "rsi" THEN c["rsp"] ELSE c[f]]
AfterSave(c) == [c EXCEPT !["r8"] = LABEL0]

(* lines 134-156: the frame pushed on the app's stack from the registers   *)
(* of the moment; only rsp (rax) and rip (rdi) come from CONTEXT_APP       *)
AppFrame(c) ==
    [f \in CtxFields |-> IF f = "rsp" THEN c["rax"] - 64
                         ELSE IF f = "rflags" THEN 2
                         ELSE IF f = "rip" THEN c["rdi"]
                         ELSE c[f]]

(* sysretq: RFLAGS <= (R11 & 0x3C7FD7) | 2, lines 313-316 *)
SysretFlags(r11) ==
    LET m == BitAnd(r11, SYSRET_RFLAGS_MASK, 22)
    IN  IF (m \div 2) % 2 = 1 THEN m ELSE m + 2

(* return_to_app, lines 287-313: the frame is popped (the slots of rcx,    *)
(* r11 and rsp skipped), rsp ends 64 above the frame's rsp slot, sysretq   *)
return_to_app(frame) ==
    [f \in CtxFields |-> IF f = "rcx" \/ f = "rip" THEN frame["rip"]
                         ELSE IF f = "r11" THEN frame["rflags"]
                         ELSE IF f = "rflags" THEN SysretFlags(frame["rflags"])
                         ELSE IF f = "rsp" THEN frame["rsp"] + 64
                         ELSE frame[f]]

(* asm_syscall_handler, lines 258-278: the frame saved on SYSCALL; the CPU *)
(* has put the return RIP in rcx and RFLAGS in r11                          *)
SyscallFrame(c) ==
    [f \in CtxFields |-> IF f = "rsp" THEN c["rsp"] - 64
                         ELSE IF f = "r11" \/ f = "rcx" THEN 0
                         ELSE IF f = "rflags" THEN c["r11"]
                         ELSE IF f = "rip" THEN c["rcx"]
                         ELSE c[f]]

(* lines 165-206: everything but RIP is popped from CONTEXT_OS *)
RestoreFromContextOs(ctx, c) == [f \in CtxFields |-> IF f = "rip" THEN c["rip"] ELSE ctx[f]]

(* lines 91-97: a lock guard is dropped at the end of the statement or     *)
(* block that took it                                                       *)
GuardHeld(holder) == holder
GuardDropped(holder) == "free"

(* line 221 *)
AnyReasonReturns(reason) == TRUE
AppReturned(reason) == reason = 0

NoSwitch == [op |-> "none", app |-> ExecutionContextDefault, after_yield |-> FALSE]

(* the loader has put the app's entry point and stack in CONTEXT_APP *)
InitExec ==
    /\ cpu = Regs(500, 100, KERNEL_RFLAGS, KERNEL_RSP, 1)
    /\ cpl = "os"
    /\ context_os = ExecutionContextDefault
    /\ context_app = [ExecutionContextDefault EXCEPT !["rip"] = 4000, !["rsp"] = 8000]
    /\ lock_os = "free"
    /\ lock_app = "free"
    /\ exec_pc = "start"
    /\ exit_reason = 0
    /\ retcode = 0
    /\ exec_result = None
    /\ entries = 0
    /\ yields = 0
    /\ ctx_last = NoSwitch

(* exec_app_context from the top of the loop to sysretq, lines 88-159 and  *)
(* 287-313                                                                  *)
EnterApp ==
    /\ exec_pc = "start"
    /\ entries < MaxEntries
    /\ lock_os = "free"
    /\ lock_app = "free"
    /\ \E kv \in KernelVals :
          LET c0    == AsmInputs(Regs(kv, cpu["rip"], KERNEL_RFLAGS, KERNEL_RSP, 1),
                                 context_app["rsp"], context_app["rip"])
              c1    == AfterSave(c0)
          IN  /\ context_os' = SaveToContextOs(c0)
              /\ cpu' = return_to_app(AppFrame(c1))
    /\ lock_os' = GuardDropped("exec")
    /\ lock_app' = GuardDropped("exec")
    /\ cpl' = "app"
    /\ exec_pc' = "in_app"
    /\ entries' = entries + 1
    /\ ctx_last' = [op |-> "enter", app |-> ctx_last.app, after_yield |-> ctx_last.op = "yield"]
    /\ UNCHANGED <<context_app, exit_reason, retcode, exec_result, yields>>
    /\ UNCHANGED exceptExec

(* the app runs and issues SYSCALL; asm_syscall_handler saves the frame    *)
(* and calls arch_syscall_handler (os/src/syscall.rs).  The handler either *)
(* returns, and the frame is popped by return_to_app (lines 238-313), or   *)
(* stores the app's state in CONTEXT_APP, exit_reason and the return code  *)
(* in CONTEXT_OS, taking their locks, and resumes the kernel at `0:`       *)
AppSyscall ==
    /\ exec_pc = "in_app"
    /\ lock_os = "free"
    /\ lock_app = "free"
    /\ \E av \in AppVals, rip \in AppRips, rsp \in AppRsps, rflags \in AppFlags,
          what \in {"return", "yield", "exit"}, code \in RetCodes, reason \in ExitReasons :
          LET app   == Regs(av, rip, rflags, rsp, 2)
              c     == [app EXCEPT !["rcx"] = rip, !["r11"] = rflags]
              frame == SyscallFrame(c)
              saved == [c EXCEPT !["rcx"] = 0, !["r11"] = 0]
              os    == [context_os EXCEPT !["rax"] = code, !["r8"] = reason]
          IN  IF what = "return"
              THEN /\ reason = 0
                   /\ cpu' = return_to_app([frame EXCEPT !["rax"] = code])
                   /\ ctx_last' = [op |-> "return", app |-> app, after_yield |-> FALSE]
                   /\ UNCHANGED <<cpl, context_os, context_app, exec_pc, exit_reason, retcode>>
              ELSE /\ (what = "exit") = (reason = 0)
                   /\ context_app' = saved
                   /\ context_os' = os
                   /\ cpu' = RestoreFromContextOs(os, c)
                   /\ cpl' = "os"
                   /\ exit_reason' = os["r8"]
                   /\ retcode' = os["rax"]
                   /\ exec_pc' = "returned"
                   /\ ctx_last' = [op |-> what, app |-> saved, after_yield |-> FALSE]
    /\ UNCHANGED <<lock_os, lock_app, exec_result, entries, yields>>
    /\ UNCHANGED exceptExec

(* lines 221-225: break on exit_reason == 0, else yield_execution().await, *)
(* which is Pending once                                                    *)
ExecCheck ==
    /\ exec_pc = "returned"
    /\ IF AppReturned(exit_reason)
       THEN /\ exec_pc' = "done"
            /\ exec_result' = retcode
            /\ UNCHANGED yields
       ELSE /\ exec_pc' = "yield_pending"
            /\ yields' = yields + 1
            /\ UNCHANGED exec_result
    /\ UNCHANGED <<cpu, cpl, context_os, context_app, lock_os, lock_app, exit_reason, retcode,
                   entries, ctx_last>>
    /\ UNCHANGED exceptExec

(* the next poll: yield_execution is Ready and the loop starts over *)
ExecPollAgain ==
    /\ exec_pc = "yield_pending"
    /\ exec_pc' = "start"
    /\ UNCHANGED <<cpu, cpl, context_os, context_app, lock_os, lock_app, exit_reason, retcode,
                   exec_result, entries, yields, ctx_last>>
    /\ UNCHANGED exceptExec

----------------------------------------------------------------------------
(* Interrupts and exceptions (os/src/x86_64/idt.rs)                         *)

Vectors == 0..255
ErrorCodes == 0..7

(* Idt.entries as Idt::new builds them, lines 360-411: every entry is the   *)
(* panic trampoline but five; the table is not written afterwards          *)
idt_entries ==
    [v \in Vectors |-> IF v \in {3, 6, 13, 14, 32} THEN [entry |-> "interrupt_entrypoint", n |-> v]
                       ELSE [entry |-> "int_handler_unimplemented", n |-> 0]]

(* line 254 *)
TimerOrBreakpoint(index) == index = 32 \/ index = 3
IsTimer(index) == index = 32

(* lines 269-287: the page-fault line *)
PageFaultCause(error_code) ==
    <<IF (error_code \div 4) % 2 # 0 THEN "user" ELSE "supervisor",
      IF (error_code \div 2) % 2 # 0 THEN "write" ELSE "read",
      IF error_code % 2 # 0 THEN "present" ELSE "non-present">>

(* inthandler, lines 253-294 *)
inthandler(error_code, index) ==
    IF IsTimer(index)
    THEN [eoi |-> TRUE, printed |-> <<>>, end |-> "return"]
    ELSE [eoi |-> FALSE,
          printed |-> <<"Interrupt Info">> \o
                      (IF index = 3 THEN <<"Breakpoint">>
                       ELSE IF index = 6 THEN <<"Invalid Opcode">>
                       ELSE IF index = 14 THEN <<"Page Fault", "CR2">> \o PageFaultCause(error_code)
                       ELSE <<"Not handled">>),
          end |-> "panic: fatal exception"]

(* inthandler_common, lines 191-248: `mov ax,16` comes before `push rax`,  *)
(* so the rax that is saved, and restored before iretq, has 16 in its low  *)
(* 16 bits                                                                  *)
SavedRax(rax) == rax - (rax % 65536) + 16

InterruptedRax == {5, 16, 65541}

NoInterrupt == [vector |-> None, error_code |-> 0, printed |-> <<>>, end |-> "none",
                eoi |-> FALSE, rax |-> 0, rax_after |-> 0]

(* the IDT is loaded *)
InitIdt ==
    /\ eoi_count = 0
    /\ int_fatal = FALSE
    /\ int_last = NoInterrupt

(* the CPU delivers vector v through the IDT: the entry point pushes the   *)
(* vector (lines 137-178), inthandler_common saves the registers, calls    *)
(* inthandler, restores and returns with iretq; int_handler_unimplemented  *)
(* panics (lines 297-299).  Only 13 and 14 come with an error code.        *)
Interrupt ==
    /\ ~int_fatal
    /\ \E v \in Vectors, error_code \in ErrorCodes, rax \in InterruptedRax :
          /\ (v \notin {13, 14}) => error_code = 0
          /\ (v = 32) => eoi_count < MaxTimerInterrupts
          /\ IF idt_entries[v].entry = "int_handler_unimplemented"
             THEN /\ int_last' = [vector |-> v, error_code |-> error_code, printed |-> <<>>,
                                  end |-> "panic: unexpected interrupt!", eoi |-> FALSE,
                                  rax |-> rax, rax_after |-> rax]
                  /\ int_fatal' = TRUE
                  /\ UNCHANGED eoi_count
             ELSE LET r == inthandler(error_code, idt_entries[v].n)
                  IN  /\ int_last' = [vector |-> v, error_code |-> error_code,
                                      printed |-> r.printed,
                                      end |-> IF r.end = "return" THEN "iretq" ELSE r.end,
                                      eoi |-> r.eoi, rax |-> rax,
                                      rax_after |-> IF r.end = "return" THEN SavedRax(rax)
                                                    ELSE rax]
                      /\ int_fatal' = (r.end # "return")
                      /\ eoi_count' = IF r.eoi THEN eoi_count + 1 ELSE eoi_count
    /\ UNCHANGED exceptIdt

----------------------------------------------------------------------------
(* PCI bus/device/function numbers (os/src/pci.rs)                          *)

MASK_BUS == 65280
SHIFT_BUS == 8
MASK_DEVICE == 248
SHIFT_DEVICE == 3
MASK_FUNCTION == 7
SHIFT_FUNCTION == 0

(* arguments of new(): the ends of each range, the values of the test and  *)
(* the first value out of range                                             *)
BusArgs == {0, 11, 255, 256}
DeviceArgs == {0, 7, 31, 32}
FunctionArgs == {0, 5, 7, 8}

Shl(x, n) == x * 2^n
Shr(x, n) == x \div 2^n
(* the range test of BusDeviceFunction::new, line 54 *)
BusOnlyChecked(bus, device, function) == ~(bus >= 0 /\ bus < 256)
OutOfRange(bus, device, function) ==
    \/ ~(bus >= 0 /\ bus < 256)
    \/ ~(device >= 0 /\ device < 32)
    \/ ~(function >= 0 /\ function < 8)

(* BusDeviceFunction::new, lines 53-63; `as u16` keeps the low 16 bits *)
BusDeviceFunctionNew(bus, device, function) ==
    IF OutOfRange(bus, device, function)
    THEN [ok |-> FALSE, id |-> 0]
    ELSE [ok |-> TRUE,
          id |-> BitOr(BitOr(Shl(bus, SHIFT_BUS), Shl(device, SHIFT_DEVICE), 18),
                       Shl(function, SHIFT_FUNCTION), 18) % 65536]

(* BusDeviceFunction::bus, device, function, lines 64-72 *)
bus(id) == Shr(BitAnd(id, MASK_BUS, 16), SHIFT_BUS)
device(id) == Shr(BitAnd(id, MASK_DEVICE, 16), SHIFT_DEVICE)
function(id) == Shr(BitAnd(id, MASK_FUNCTION, 16), SHIFT_FUNCTION)

NoBdf == [op |-> "none", bus |-> 0, device |-> 0, function |-> 0, ok |-> FALSE, id |-> 0]

(* BusDeviceFunction::iter, lines 73-75 *)
InitPci ==
    /\ pci_next_id = 0
    /\ pci_yielded = 0
    /\ pci_item = None
    /\ pci_last = NoBdf

(* BusDeviceFunctionIterator::next, lines 98-108 *)
IterStopsAt255(id) == id > 255
IterExhausted(id) == id > 65535
next(it) ==
    IF IterExhausted(it.next_id)
    THEN [next_id |-> it.next_id, yielded |-> it.yielded, item |-> None]
    ELSE [next_id |-> it.next_id + 1, yielded |-> it.yielded + 1, item |-> it.next_id % 65536]

RECURSIVE NextTimes(_, _)
NextTimes(it, n) == IF n = 0 THEN it ELSE NextTimes(next(it), n - 1)

(* next() called once, or 32 times in a row (a whole device row), until it *)
(* has returned None                                                        *)
IterNext ==
    /\ pci_last.op = "none"
    /\ pci_item # None \/ pci_next_id = 0
    /\ \E n \in {1, 32} :
          LET r == NextTimes([next_id |-> pci_next_id, yielded |-> pci_yielded,
                              item |-> pci_item], n)
          IN  /\ pci_next_id' = r.next_id
              /\ pci_yielded' = r.yielded
              /\ pci_item' = r.item
    /\ UNCHANGED pci_last
    /\ UNCHANGED exceptPci

(* one call of BusDeviceFunction::new, taken when the iteration is over *)
NewBdf ==
    /\ pci_last.op = "none"
    /\ pci_item = None /\ pci_next_id > 0
    /\ \E b \in BusArgs, d \in DeviceArgs, f \in FunctionArgs :
          LET r == BusDeviceFunctionNew(b, d, f)
          IN  pci_last' = [op |-> "new", bus |-> b, device |-> d, function |-> f,
                           ok |-> r.ok, id |-> r.id]
    /\ UNCHANGED <<pci_next_id, pci_yielded, pci_item>>
    /\ UNCHANGED exceptPci

----------------------------------------------------------------------------
(* transfer_rect (os/src/graphics.rs)                                       *)

(* the bitmap of the test, lines 403-412 *)
H == 4
W == 4
PIXELS_PER_LINE == 4
INIT ==
    [i \in 0..(PIXELS_PER_LINE * H - 1) |-> 10 * (i \div PIXELS_PER_LINE) + (i % PIXELS_PER_LINE)]

(* coordinates and sizes transfer_rect is called with *)
Coords == -1..4
Sizes == 0..4

(* Bitmap::is_in_x_range, is_in_y_range, lines 36-42 *)
is_in_x_range(px) == 0 <= px /\ px < (IF W < PIXELS_PER_LINE THEN W ELSE PIXELS_PER_LINE)
is_in_y_range(py) == 0 <= py /\ py < H

(* Bitmap::unchecked_pixel_at, lines 28-32, in pixels *)
unchecked_pixel_at(x, y) == y * PIXELS_PER_LINE + x

(* lines 285, 295 and 305: which way the rows and the columns are walked *)
RowsNeverReversed(dy, sy) == FALSE
RowsReversed(dy, sy) == dy > sy
ColsReversed(dy, sy, dx, sx) == dy = sy /\ dx > sx

(* the k-th pixel copied, k in 0..w*h-1: rows outside, columns inside *)
StepXY(k, dx, dy, sx, sy, w, h) ==
    LET yk == k \div w
        xk == k % w
    IN  [x |-> IF ColsReversed(dy, sy, dx, sx) THEN w - 1 - xk ELSE xk,
         y |-> IF RowsReversed(dy, sy) THEN h - 1 - yk ELSE yk]

(* lines 288-291: one pixel read at the source and drawn at the            *)
(* destination, after the ones before it                                   *)
RECURSIVE CopyFrom(_, _, _, _, _, _, _, _)
CopyFrom(buf, k, dx, dy, sx, sy, w, h) ==
    IF k >= w * h THEN buf
    ELSE LET p == StepXY(k, dx, dy, sx, sy, w, h)
             c == buf[unchecked_pixel_at(sx + p.x, sy + p.y)]
         IN  CopyFrom([buf EXCEPT ![unchecked_pixel_at(dx + p.x, dy + p.y)] = c],
                      k + 1, dx, dy, sx, sy, w, h)

(* transfer_rect, lines 263-320 *)
transfer_rect(buf, dx, dy, sx, sy, w, h) ==
    IF \/ ~is_in_x_range(sx) \/ ~is_in_y_range(sy)
       \/ ~is_in_x_range(sx + w - 1) \/ ~is_in_y_range(sy + h - 1)
       \/ ~is_in_x_range(dx) \/ ~is_in_y_range(dy)
       \/ ~is_in_x_range(dx + w - 1) \/ ~is_in_y_range(dy + h - 1)
    THEN [res |-> "OutOfRange", buf |-> buf]
    ELSE IF dy = sy /\ dx = sx
    THEN [res |-> "Ok", buf |-> buf]
    ELSE [res |-> "Ok", buf |-> CopyFrom(buf, 0, dx, dy, sx, sy, w, h)]

NoTransfer == [op |-> "none", dx |-> 0, dy |-> 0, sx |-> 0, sy |-> 0, w |-> 0, h |-> 0,
               res |-> "none"]

(* the buffer filled as the test fills it, lines 453-460 *)
InitGfx ==
    /\ gfx_buf = INIT
    /\ gfx_last = NoTransfer

(* one transfer_rect on the filled buffer *)
TransferRect ==
    /\ gfx_last.op = "none"
    /\ \E dx \in Coords, dy \in Coords, sx \in Coords, sy \in Coords, w \in Sizes, h \in Sizes :
          LET r == transfer_rect(gfx_buf, dx, dy, sx, sy, w, h)
          IN  /\ gfx_buf' = r.buf
              /\ gfx_last' = [op |-> "transfer_rect", dx |-> dx, dy |-> dy, sx |-> sx, sy |-> sy,
                              w |-> w, h |-> h, res |-> r.res]
    /\ UNCHANGED exceptGfx

----------------------------------------------------------------------------
(* init_usb_hid_keyboard after the descriptor scan, lines 62-127 of        *)
(* os/src/usb_hid_keyboard.rs.  Xhci::send_command and the                 *)
(* request_set_* helpers await an event and return a Result; a wait that   *)
(* times out surfaces as Err.                                              *)

(* the requests awaited, lines 93-113 *)
Requests == <<"ConfigureEndpoint", "SET_CONFIGURATION", "SET_INTERFACE", "SET_PROTOCOL(Boot)">>

(* how an awaited request ends *)
Outcomes == {"ok", "error", "timeout"}

(* the device context indices of the device's endpoints *)
EpDcis == {3, 5, 7}

(* `.await?`: the request's Err leaves init_usb_hid_keyboard *)
OnlyErrorReturns(outcome) == outcome = "error"
RequestFailed(outcome) == outcome # "ok"

InitCfg ==
    /\ cfg_pc = 0
    /\ cfg_completed = <<>>
    /\ cfg_rings = [d \in EpDcis |-> "none"]
    /\ cfg_doorbells = <<>>
    /\ cfg_result = [res |-> "none", at |-> 0]

(* lines 27-93: the scan either fails or selects the keyboard; a Transfer  *)
(* ring is created for every interrupt-in endpoint, other endpoints are    *)
(* ignored, and the Configure Endpoint command is sent                     *)
CfgBegin ==
    /\ cfg_pc = 0
    /\ \E found \in BOOLEAN, interrupt_in \in SUBSET EpDcis :
          IF ~found
          THEN /\ cfg_pc' = Len(Requests) + 2
               /\ cfg_result' = [res |-> "Err", at |-> 0]
               /\ UNCHANGED cfg_rings
          ELSE /\ cfg_pc' = 1
               /\ cfg_rings' = [d \in EpDcis |-> IF d \in interrupt_in THEN "new" ELSE "none"]
               /\ UNCHANGED cfg_result
    /\ UNCHANGED <<cfg_completed, cfg_doorbells>>
    /\ UNCHANGED exceptCfg

(* lines 93-113: the awaited request ends; `?` returns its Err, otherwise  *)
(* the next request is issued                                              *)
CfgRequestDone ==
    /\ cfg_pc \in 1..Len(Requests)
    /\ \E outcome \in Outcomes :
          IF RequestFailed(outcome)
          THEN /\ cfg_pc' = Len(Requests) + 2
               /\ cfg_result' = [res |-> "Err", at |-> cfg_pc]
               /\ UNCHANGED cfg_completed
          ELSE /\ cfg_pc' = cfg_pc + 1
               /\ cfg_completed' = IF outcome = "ok" THEN Append(cfg_completed, Requests[cfg_pc])
                                   ELSE cfg_completed
               /\ UNCHANGED cfg_result
    /\ UNCHANGED <<cfg_rings, cfg_doorbells>>
    /\ UNCHANGED exceptCfg

(* lines 119-125: one turn of the loop over ep_rings, in dci order:        *)
(* tring.fill_ring()? on the ring as TransferRing::new left it, then       *)
(* xhci.notify_ep(slot, dci)                                               *)
CfgFillNext ==
    /\ cfg_pc = Len(Requests) + 1
    /\ \E dci \in EpDcis :
          /\ cfg_rings[dci] = "new"
          /\ \A d \in EpDcis : cfg_rings[d] = "new" => dci <= d
          /\ IF fill_ring([trb |-> TransferRingNew, index |-> 0], 0, FALSE).ok
             THEN /\ cfg_rings' = [cfg_rings EXCEPT ![dci] = "filled"]
                  /\ cfg_doorbells' = Append(cfg_doorbells, dci)
                  /\ UNCHANGED <<cfg_pc, cfg_result>>
             ELSE /\ cfg_pc' = Len(Requests) + 2
                  /\ cfg_result' = [res |-> "Err", at |-> cfg_pc]
                  /\ UNCHANGED <<cfg_rings, cfg_doorbells>>
    /\ UNCHANGED cfg_completed
    /\ UNCHANGED exceptCfg

(* line 126: Ok(ep_rings) once the loop is over *)
CfgReturn ==
    /\ cfg_pc = Len(Requests) + 1
    /\ \A d \in EpDcis : cfg_rings[d] # "new"
    /\ cfg_pc' = Len(Requests) + 2
    /\ cfg_result' = [res |-> "Ok", at |-> cfg_pc]
    /\ UNCHANGED <<cfg_completed, cfg_rings, cfg_doorbells>>
    /\ UNCHANGED exceptCfg

----------------------------------------------------------------------------
(* handle_rx_dhcp_client on the option bytes of a boot reply               *)
(* (os/src/net/manager.rs, lines 124-192)                                  *)

(* options per reply *)
MaxOptions == 3

(* what the options area is made of: padding, End, whole options, a        *)
(* zero-length option, and options cut short by the end of the packet      *)
OptionPieces ==
    { <<DHCP_OPT_MESSAGE_TYPE_PADDING>>,
      <<DHCP_OPT_MESSAGE_TYPE_END>>,
      Opt(DHCP_OPT_NETMASK, Mask24),
      Opt(DHCP_OPT_ROUTER, IpRouter),
      Opt(DHCP_OPT_MESSAGE_TYPE, <<2>>),
      Opt(DHCP_OPT_RAPID_COMMIT, <<>>),
      <<DHCP_OPT_MESSAGE_TYPE, 1>>,
      <<DHCP_OPT_MESSAGE_TYPE>>,
      <<DHCP_OPT_DNS, 4, 10, 0>> }

OptionLists == UNION { [1..n -> OptionPieces] : n \in 0..MaxOptions }

RECURSIVE Flatten(_)
Flatten(pieces) == IF pieces = <<>> THEN <<>> ELSE Head(pieces) \o Flatten(Tail(pieces))

NoReply == [op |-> "none", pieces |-> <<>>, res |-> "ok", lease |-> NoLease]

InitDhcp == dhcp_last = NoReply

(* a boot reply arrives whose options area holds these bytes *)
HandleRxDhcpClient ==
    /\ dhcp_last.op = "none"
    /\ \E pieces \in OptionLists :
          LET r == handle_rx_dhcp_client(NoLease,
                       DhcpPacket(TRUE, IpSelf, Flatten(pieces), NoLease))
          IN  dhcp_last' = [op |-> "reply", pieces |-> pieces, res |-> r.res,
                            lease |-> r.lease]
    /\ UNCHANGED exceptDhcp

NextAlloc == InitWithMmap \/ Alloc \/ Free
NextChurn == InitWithMmap \/ ChurnAlloc \/ Free
NextCmd == Push \/ PushWriteHalf \/ PushAdvance \/ PushLink \/ XhcStep
NextCmdBounded == PushBounded \/ PushWriteHalf \/ PushAdvance \/ PushLink \/ XhcStep
NextXfer == FillRing \/ DequeueTrb
NextEv == PopBegin \/ PopFinish \/ XhcEvent
NextFut == NewFuture \/ Dispatch \/ Poll \/ Tick
NextNet == RegisterInterface \/ DropInterface \/ SendIpPacket \/ ProbeInterfaces \/ ProcessTx \/ ProcessRx
NextNetTx == RegisterInterface \/ DropInterface \/ SendIpPacketBurst \/ ProbeInterfaces \/ ProcessTx \/ ProcessRxLease
NextKbdInit == InitUsbHidKeyboard
NextKbdKey == KeyReport
NextAttach == AttachReport \/ AttachNoReport \/ PopInput
NextExec == EnterApp \/ AppSyscall \/ ExecCheck \/ ExecPollAgain
NextIdt == Interrupt
NextPci == IterNext \/ NewBdf
NextGfx == TransferRect
NextInit == InitWithMmapLarge

NextCfg == CfgBegin \/ CfgRequestDone \/ CfgFillNext \/ CfgReturn
NextDhcp == HandleRxDhcpClient

Init == InitAlloc /\ InitCmd /\ InitXfer /\ InitEv /\ InitFut /\ InitNet /\ InitKbd /\ InitAttach /\ InitExec /\ InitIdt /\ InitPci /\ InitGfx /\ InitCfg /\ InitDhcp

SpecAlloc == Init /\ [][NextAlloc]_vars
SpecChurn == Init /\ [][NextChurn]_vars
SpecCmd == Init /\ [][NextCmd]_vars
SpecCmdBounded == Init /\ [][NextCmdBounded]_vars
SpecXfer == Init /\ [][NextXfer]_vars
SpecEv == Init /\ [][NextEv]_vars
SpecFut == Init /\ [][NextFut]_vars
SpecNet == Init /\ [][NextNet]_vars
SpecNetTx == Init /\ [][NextNetTx]_vars
SpecKbdInit == Init /\ [][NextKbdInit]_vars
SpecKbdKey == Init /\ [][NextKbdKey]_vars
SpecAttach == Init /\ [][NextAttach]_vars
SpecExec == Init /\ [][NextExec]_vars
SpecIdt == Init /\ [][NextIdt]_vars
SpecPci == Init /\ [][NextPci]_vars
SpecGfx == Init /\ [][NextGfx]_vars
SpecInit == Init /\ [][NextInit]_vars
SpecCfg == Init /\ [][NextCfg]_vars
SpecDhcp == Init /\ [][NextDhcp]_vars


----------------------------------------------------------------------------
(* Properties of the allocator *)

(* the byte address of ptr (in units) is a multiple of align (in bytes) *)
MultipleOf(ptr, align) ==
    IF align <= HEADER_SIZE THEN HEADER_SIZE % align = 0
    ELSE ptr % Units(align) = 0

FreeHeaders(m) == { a \in DOMAIN m : ~m[a].is_allocated }

ListHeaders == OnList(mem, first_header)

RECURSIVE SumSizes(_, _)
SumSizes(m, S) ==
    IF S = {} THEN 0
    ELSE LET a == CHOOSE x \in S : TRUE IN m[a].size + SumSizes(m, S \ {a})

DescEnd(d) == d.physical_start + DescSize(d)

HeadersIn(d) == { a \in ListHeaders : d.physical_start <= a /\ a < DescEnd(d) }

(* some header on the list is free and can provide the request *)
SomeProvider(m, first, size, align) ==
    \E a \in OnList(m, first) :
        ~m[a].is_allocated /\ can_provide(m[a], EffectiveSize(size), EffectiveAlign(align))

(* C1: every alloc(size, align) that returns a non-null pointer returns an  *)
(* address that is a multiple of align, in every free-list state that      *)
(* earlier allocs and frees lead to.                                       *)
C1_AllocAligned ==
    (last.op = "alloc" /\ last.res = "ok") => MultipleOf(last.ptr, last.align)

C1_Witness ==
    /\ last.op = "alloc" /\ last.res = "ok" /\ last.align = 4096
    /\ freed # {}
    /\ MultipleOf(last.ptr, last.align)

(* C2 as stated: under churn (each block freed before the next alloc,      *)
(* request sizes growing) alloc never returns null when the request        *)
(* fits the memory the heap was initialised with.                          *)
C2_ChurnNeverNullIfFits ==
    (/\ last.op = "alloc"
     /\ \E d \in ConventionalDescs(mmap) :
            can_provide(Header(0, DescSize(d), FALSE), EffectiveSize(last.size),
                        EffectiveAlign(last.align)))
    => last.res # "null"

(* C2 amended: under churn alloc does not return null as long as some      *)
(* descriptor is at least 32 bytes larger than the sum, over the rounds    *)
(* served so far and this one, of effective_size + max(align, 16): a freed *)
(* block is never given to a request of the same or a larger size, so      *)
(* every round takes fresh memory.                                         *)
C2_ChurnNeverNullWithinBudget ==
    (last.op = "alloc" /\ last.res = "null")
    => \A d \in ConventionalDescs(mmap) :
          DescSize(d) < churn.asked + EffectiveSize(last.size)
                        + EffectiveAlign(last.align) + 2 * HDR

C2_Witness ==
    /\ last.op = "alloc" /\ last.res = "ok" /\ freed # {}
    /\ churn.asked > EffectiveSize(last.size) + EffectiveAlign(last.align)
    /\ \E d \in ConventionalDescs(mmap) : DescSize(d) >= churn.asked + 2 * HDR

(* C3: every header on the free list has size >= header_size (16 bytes),   *)
(* after any sequence of init_with_mmap, alloc and free.                   *)
C3_HeaderSizeAtLeast16 ==
    \A a \in ListHeaders : mem[a].size >= HDR

(* C4: the headers carved out of one descriptor stay contiguous: the first *)
(* is at the descriptor's start, each header's address plus its size is    *)
(* the address of the next, and the sizes sum to the descriptor's size.    *)
C4_Contiguous ==
    (heap_ready /\ halted = "run") =>
        /\ \A a \in ListHeaders : \E d \in ConventionalDescs(mmap) : a \in HeadersIn(d)
        /\ \A d \in ConventionalDescs(mmap) :
              /\ d.physical_start \in HeadersIn(d)
              /\ \A a \in HeadersIn(d) :
                    a + mem[a].size = DescEnd(d) \/ a + mem[a].size \in HeadersIn(d)
              /\ SumSizes(mem, HeadersIn(d)) = DescSize(d)

(* C5: free(ptr) changes only the is_allocated flag of the header at       *)
(* ptr - 16: the headers, their sizes and their next links stay, so        *)
(* adjacent free regions are not merged.                                   *)
C5_FreeOnlyClearsFlag ==
    [][ last'.op = "free" =>
          /\ DOMAIN mem' = DOMAIN mem
          /\ first_header' = first_header
          /\ mem'[last'.ptr - HDR].is_allocated = FALSE
          /\ \A a \in DOMAIN mem :
                /\ mem'[a].size = mem[a].size
                /\ mem'[a].next_header = mem[a].next_header
                /\ (a # last'.ptr - HDR => mem'[a] = mem[a]) ]_vars

(* a free whose region is followed, address-wise, by a free region *)
C5_Witness ==
    /\ last.op = "free"
    /\ LET h == last.ptr - HDR
       IN  /\ ~mem[h].is_allocated
           /\ h + mem[h].size \in FreeHeaders(mem)

(* C6: alloc returns null exactly when no header on the free list is both  *)
(* free and of size >= effective_size + 3 * header_size, and an alloc that *)
(* returns null leaves the free list unchanged.                            *)
C6_NullIffNoProvider ==
    [][ last'.op = "alloc" =>
          /\ (last'.res = "null") <=>
                 ~SomeProvider(mem, first_header, last'.size, last'.align)
          /\ (last'.res = "null") => (mem' = mem /\ first_header' = first_header) ]_vars

----------------------------------------------------------------------------
(* Properties of the TRB rings *)

(* C7 as stated: on a fresh Command ring the first 15 pushes succeed, and  *)
(* the 16th push succeeds and is the one that flips cycle_state_ours.      *)
C7_SixteenthPushFlips ==
    /\ (cmd_last.n >= 1 /\ cmd_last.n <= NUM_TRB) => cmd_last.res = "ok"
    /\ cmd_last.n = NUM_TRB => cmd_last.flipped

(* C7 amended: on a fresh Command ring the first 14 pushes succeed without *)
(* a flip, and the 15th push, the one that reaches the Link TRB in slot    *)
(* 15, succeeds, skips it and flips cycle_state_ours.                      *)
C7_FifteenthPushFlips ==
    (cmd_last.n >= 1 /\ cmd_last.n <= NUM_TRB - 1) =>
        /\ cmd_last.res = "ok"
        /\ cmd_last.ptr = cmd_last.n - 1
        /\ cmd_last.flipped <=> (cmd_last.n = NUM_TRB - 1)

C7_Witness ==
    /\ cmd_last.n = NUM_TRB - 1 /\ cmd_last.res = "ok" /\ cmd_last.flipped
    /\ cmd_pc = "idle" /\ cmd_index = 0 /\ cmd_cycle = TRUE

(* C8: a push into a Command ring the controller has not drained (all 15   *)
(* usable slots hold TRBs it has not executed) returns "Command Ring is    *)
(* Full" and leaves the ring unchanged.                                    *)
C8_FullWhenUndrained ==
    cmd_last.undrained => (cmd_last.res = "Command Ring is Full" /\ ~cmd_last.changed)

(* C9: with at most 15 pushed TRBs outstanding, the controller executes    *)
(* every pushed TRB exactly once, in push order, and never one of which    *)
(* only a part has been stored: the k-th TRB it executes is the k-th       *)
(* pushed, whole; it never runs ahead of the pushes; and when it stops at  *)
(* a slot while no push is running, it has executed all of them.           *)
C9_ExecutedOnceInOrder ==
    /\ xhc_consumed <= cmd_calls
    /\ xhc_consumed > 0 => xhc_last = [data |-> xhc_consumed, ctl |-> xhc_consumed]
    /\ cmd_last.res \in {"none", "ok"}
    /\ (cmd_pc = "idle" /\ cycle_state(cmd_trb[xhc_index]) # xhc_ccs)
           => xhc_consumed = cmd_calls

(* C10: after new and fill_ring, and then any dequeue_trb and fill_ring    *)
(* calls, the enqueue index never equals the dequeue index: it stays one   *)
(* slot short of it modulo the 15 non-Link slots, and never rests on the   *)
(* Link slot.                                                              *)
C10_EnqueueOneShortOfDequeue ==
    xfer_filled =>
        /\ xfer_index # xfer_deq
        /\ (xfer_index + 1) % (NUM_TRB - 1) = xfer_deq
        /\ xfer_index # NUM_TRB - 1

(* the 16th dequeue_trb: the enqueue index has gone over the Link TRB *)
C10_Witness ==
    /\ xfer_filled /\ xfer_count = NUM_TRB
    /\ xfer_last = [op |-> "dequeue_trb", ptr |-> 0, res |-> "ok"]
    /\ xfer_index = 0 /\ xfer_deq = 1

(* C11: with the controller as the only writer of the Event ring and       *)
(* software as the only reader, pop reports an event iff the TRB at        *)
(* current_index has cycle bit equal to cycle_state_ours, which is iff an  *)
(* event is written and not yet popped; the k-th event pop returns is the  *)
(* k-th event written; and when pop finds no event, every written event    *)
(* has been returned -- across any number of wraps.                        *)
C11_PopReturnsEachEventOnce ==
    /\ ev_popped <= xhc_ev_written
    /\ ev_last.res \in {"new", "none", "some"}
    /\ ev_last.res = "some" => (ev_last.present /\ ev_last.unpopped
                                 /\ ev_last.id = ev_popped)
    /\ ev_last.res = "none" => (~ev_last.present /\ ~ev_last.unpopped)
    /\ ev_pc = "idle" => (has_next_event(ev_trb, ev_index, ev_cycle) <=> EvPending > 0)

(* the first event of the third lap has been popped, after two flips *)
C11_Witness ==
    /\ ev_last.res = "some" /\ ev_last.id = 2 * NUM_TRB + 1
    /\ ev_pc = "idle" /\ ev_cycle = TRUE /\ ev_index = 1
    /\ EvPending = 1

----------------------------------------------------------------------------
(* Properties of the event waiters *)

(* C12: matches(trb) is true iff the types are equal, and the waiter gave  *)
(* no slot or the slot ids are equal, and the waiter gave no address or    *)
(* trb.data equals it; a waiter with type, slot and address all given is   *)
(* resolved by a TRB with exactly those values and by no TRB that differs  *)
(* in a field.                                                             *)
C12_MatchesIffAllGivenFieldsEqual ==
    /\ \A i \in Futures, trb \in EventTrbs :
          wi[i].st = "waiting" =>
             (matches(wi[i].cond, trb) <=>
                 /\ trb.type = wi[i].cond.trb_type
                 /\ (wi[i].cond.slot = None \/ trb.slot = wi[i].cond.slot)
                 /\ (wi[i].cond.trb_addr = None \/ trb.data = wi[i].cond.trb_addr))
    /\ \A i \in Futures :
          (wi[i].fulfilled /\ wi[i].cond.slot # None /\ wi[i].cond.trb_addr # None) =>
              wi[i].by = EventTrb(wi[i].cond.trb_type, wi[i].cond.slot, wi[i].cond.trb_addr)
    /\ (fut_last.op = "dispatch" /\ fut_last.res = "unmatched") =>
          \A k \in 1..Len(waiters) :
              LET c == wi[waiters[k]].cond
              IN  \/ fut_last.trb.type # c.trb_type
                  \/ c.slot \notin {None, fut_last.trb.slot}
                  \/ c.trb_addr \notin {None, fut_last.trb.data}

(* a fully specified waiter was left unresolved by a TRB that differs in   *)
(* the slot only                                                           *)
C12_Witness ==
    /\ fut_last = [op |-> "dispatch", id |-> 0, res |-> "unmatched",
                   trb |-> EventTrb(TransferEvent, 6, 4096), late |-> FALSE,
                   fulfilled |-> FALSE]
    /\ waiters = <<1>>
    /\ wi[1].cond = EventWaitCond(TransferEvent, 4096, 5)
    /\ ~wi[1].fulfilled

(* C13: poll returns Ready(None) whenever the main counter is strictly     *)
(* greater than the deadline, fulfilled or not; otherwise Ready(Some(trb)) *)
(* when the waiter is fulfilled; otherwise Pending; it never returns an    *)
(* error.                                                                  *)
C13_PollTimeoutFirst ==
    fut_last.op = "poll" =>
        /\ fut_last.res \in {"ReadyNone", "ReadySome", "Pending"}
        /\ fut_last.late => fut_last.res = "ReadyNone"
        /\ (~fut_last.late /\ fut_last.fulfilled) =>
               (fut_last.res = "ReadySome" /\ fut_last.trb = wi[fut_last.id].event_trb)
        /\ (~fut_last.late /\ ~fut_last.fulfilled) => fut_last.res = "Pending"

(* a fulfilled waiter polled after its deadline *)
C13_Witness ==
    /\ fut_last.op = "poll" /\ fut_last.late /\ fut_last.fulfilled
    /\ fut_last.res = "ReadyNone"

(* C14 as stated: the poll that follows the resolution of a waiter returns *)
(* Ready(Some(trb)) with exactly the resolving TRB, and fulfilled is never *)
(* set back to false.                                                      *)
C14_NextPollSeesCompletion ==
    /\ \A i \in Futures : wi[i].st = "done" => wi[i].fulfilled = (wi[i].by # DefaultTrb)
    /\ (fut_last.op = "poll" /\ fut_last.fulfilled) =>
           (fut_last.res = "ReadySome" /\ fut_last.trb = wi[fut_last.id].by)

(* C14 amended: the poll that follows the resolution returns               *)
(* Ready(Some(trb)) with exactly the resolving TRB if the main counter is  *)
(* not greater than the deadline at that poll, and Ready(None) if it is;   *)
(* fulfilled is never set back to false.                                   *)
C14_NextPollSeesCompletionInTime ==
    /\ \A i \in Futures : wi[i].st # "unused" => wi[i].fulfilled = (wi[i].by # DefaultTrb)
    /\ (fut_last.op = "poll" /\ fut_last.fulfilled) =>
           IF fut_last.late
           THEN fut_last.res = "ReadyNone"
           ELSE fut_last.res = "ReadySome" /\ fut_last.trb = wi[fut_last.id].by

C14_Witness ==
    /\ fut_last.op = "poll" /\ fut_last.fulfilled /\ ~fut_last.late
    /\ fut_last.res = "ReadySome"
    /\ fut_last.trb = EventTrb(TransferEvent, 5, 4096)
    /\ wi[fut_last.id].st = "done"

----------------------------------------------------------------------------
(* Properties of the network manager *)

(* C15: the task runs forever: whatever the handling of the received       *)
(* frames results in (a frame that is not a valid ARP packet, a DHCP       *)
(* option whose declared length exceeds the remaining bytes), the loop     *)
(* goes on to its next iteration and the task does not return.             *)
C15_RxErrorsDoNotEndTask ==
    net_last.op = "rx" => net_pc = "probe"

(* C16: the probe step pushes packets only if register_interface was       *)
(* called since the previous probe; it then pushes exactly one ARP request *)
(* (who-has 10.0.2.2, tell 10.0.2.15) and one DHCP Discover to every live  *)
(* registered interface, and the following probes push nothing until       *)
(* another interface is registered.                                        *)
C16_ProbeOncePerRegistration ==
    net_last.op = "probe" =>
        /\ ~interface_has_added
        /\ ~net_last.had => net_last.pushed = <<>>
        /\ net_last.had => net_last.pushed = ProbeAll(net_last.live)

(* the next hop process_tx is to use for dst, by the rule of C17 *)
C17_Hop(dst) ==
    IF network_prefix(dst, lease.netmask) = network_prefix(lease.self_ip, lease.netmask)
    THEN dst ELSE lease.router

C17_Handed(dst, hop) ==
    <<[iface |-> arp_table[hop].iface, kind |-> "ipv4", src |-> lease.self_ip, dst |-> dst,
       eth_dst |-> arp_table[hop].mac, eth_src |-> IfaceMac(arp_table[hop].iface),
       eth_type |-> "ipv4"]>>

(* C17 as stated: for an IPv4 packet popped from the transmit queue the    *)
(* next hop is the ARP entry of dst if dst and self_ip have the same       *)
(* prefix under netmask, and that of router otherwise; if the entry is     *)
(* found the packet is handed to its interface with source self_ip and     *)
(* Ethernet header (next_hop_mac, iface_mac, IPv4), else it is dropped.    *)
C17_NextHopAndHandOver ==
    (net_last.op = "tx" /\ net_last.pkt # NoIp /\ lease.self_ip # NoIp /\ lease.netmask # NoIp)
        => LET hop == C17_Hop(net_last.pkt)
           IN  IF hop \in DOMAIN arp_table
               THEN net_last.pushed = C17_Handed(net_last.pkt, hop)
               ELSE net_last.pushed = <<>>

(* C17 amended: the packet is handed over only if the entry's interface    *)
(* is still alive; it is dropped when the entry is not found, when the     *)
(* interface is gone, and when self_ip or netmask is not set yet.          *)
C17_NextHopAndHandOverIfAlive ==
    (net_last.op = "tx" /\ net_last.pkt # NoIp)
        => IF lease.self_ip = NoIp \/ lease.netmask = NoIp
           THEN net_last.pushed = <<>>
           ELSE LET hop == C17_Hop(net_last.pkt)
                IN  IF hop \in DOMAIN arp_table /\ arp_table[hop].iface \in iface_alive
                    THEN net_last.pushed = C17_Handed(net_last.pkt, hop)
                    ELSE net_last.pushed = <<>>

(* a packet for 8.8.8.8 went out through the router's ARP entry *)
C17_Witness ==
    /\ net_last.op = "tx" /\ net_last.pkt = IpFar /\ net_last.res = "ok"
    /\ net_last.pushed # <<>>
    /\ net_last.pushed[1].eth_dst = MacOf(IpRouter)
    /\ net_last.pushed[1].src = IpSelf

(* C18: after a DHCP boot reply whose options carry netmask, router and    *)
(* DNS before the End option, the Network singleton reports yiaddr as      *)
(* self_ip and exactly those three values; a DHCP packet that is not a     *)
(* boot reply changes none of the four.                                    *)
C18_LeaseFromReply ==
    (net_last.op = "rx" /\ net_last.dhcp.kind = "dhcp") =>
        /\ (net_last.dhcp.reply /\ net_last.dhcp.carries # NoLease)
               => lease = net_last.dhcp.carries
        /\ ~net_last.dhcp.reply => lease = net_last.before

----------------------------------------------------------------------------
(* Properties of the USB HID keyboard driver *)

(* the descriptors of the configuration at position c: up to the next      *)
(* Configuration descriptor or the end of the list                         *)
ConfigEnd(ds, c) ==
    IF \E j \in (c + 1)..Len(ds) : ds[j].t = "Config"
    THEN (CHOOSE j \in (c + 1)..Len(ds) :
              ds[j].t = "Config" /\ \A k \in (c + 1)..(j - 1) : ds[k].t # "Config") - 1
    ELSE Len(ds)

IsBootKeyboard(d) == d.t = "Interface" /\ d.triple = BootKeyboard

(* the positions of the configurations that contain a boot keyboard *)
KeyboardConfigs(ds) ==
    { c \in 1..Len(ds) : ds[c].t = "Config"
                         /\ \E j \in (c + 1)..ConfigEnd(ds, c) : IsBootKeyboard(ds[j]) }

EndpointsOf(ds, c) == SelectSeq(SubSeq(ds, c + 1, ConfigEnd(ds, c)), LAMBDA d : d.t = "Endpoint")

SetMax(S) == CHOOSE x \in S : \A y \in S : y <= x
SetMin(S) == CHOOSE x \in S : \A y \in S : x <= y

(* C19 as stated: init_usb_hid_keyboard selects the last Configuration     *)
(* descriptor that contains an Interface with triple (3,1,1) and collects  *)
(* the Endpoint descriptors of that configuration; it fails when there is  *)
(* no such interface.                                                      *)
C19_SelectsLastKeyboardConfig ==
    kbd_sel.res # "none" =>
        LET ds == kbd_sel.descriptors
        IN  IF KeyboardConfigs(ds) = {}
            THEN kbd_sel.res # "ok"
            ELSE /\ kbd_sel.res = "ok"
                 /\ kbd_sel.config = ds[SetMax(KeyboardConfigs(ds))]
                 /\ kbd_sel.eps = EndpointsOf(ds, SetMax(KeyboardConfigs(ds)))

(* C19 amended: init_usb_hid_keyboard selects the Configuration descriptor *)
(* that contains the first Interface with triple (3,1,1) of the list and   *)
(* collects the Endpoint descriptors of that configuration; it fails when  *)
(* there is no such interface or when the first one comes before every     *)
(* Configuration descriptor.                                               *)
C19_SelectsFirstKeyboardConfig ==
    kbd_sel.res # "none" =>
        LET ds    == kbd_sel.descriptors
            kbds  == { j \in 1..Len(ds) : IsBootKeyboard(ds[j]) }
            first == SetMin(kbds)
            confs == { c \in 1..Len(ds) : ds[c].t = "Config" /\ c < first }
        IN  IF kbds = {} \/ confs = {}
            THEN kbd_sel.res # "ok"
            ELSE /\ kbd_sel.res = "ok"
                 /\ kbd_sel.config = ds[SetMax(confs)]
                 /\ kbd_sel.eps = EndpointsOf(ds, SetMax(confs))

(* two configurations with a boot keyboard each: the first one is selected *)
C19_Witness ==
    /\ kbd_sel.descriptors = <<ConfigDesc(1), InterfaceDesc(BootKeyboard), EndpointDesc(1),
                               ConfigDesc(2), InterfaceDesc(BootKeyboard)>>
    /\ kbd_sel.res = "ok"
    /\ kbd_sel.config = ConfigDesc(1)
    /\ kbd_sel.eps = <<EndpointDesc(1)>>

(* C20: the usage-id translation maps 0 to no key, each id in 4..=29 to    *)
(* the letter 'a'..='z' in order, each id in 30..=39 to a digit character, *)
(* 40 to Enter, and every other id to a diagnostic (no character).         *)
C20_UsageIdMapping ==
    kbd_key.kind # "none" =>
        LET id == kbd_key.id
        IN  IF id = 0 THEN kbd_key.kind = "None"
            ELSE IF id >= 4 /\ id <= 29 THEN kbd_key.kind = "Char" /\ kbd_key.ch = 97 + (id - 4)
            ELSE IF id >= 30 /\ id <= 39
            THEN kbd_key.kind = "Char" /\ kbd_key.ch >= 48 /\ kbd_key.ch <= 57
            ELSE IF id = 40 THEN kbd_key.kind = "Enter" /\ kbd_key.ch = 10
            ELSE kbd_key.kind = "Err"

----------------------------------------------------------------------------
(* Properties of the keyboard report loop *)

(* the characters of the usage ids in s that translate, ascending *)
RECURSIVE CharsOf(_)
CharsOf(s) ==
    IF s = {} THEN <<>>
    ELSE LET id == CHOOSE x \in s : \A y \in s : x <= y
             c  == usage_id_to_char(id)
         IN  (IF c.kind \in {"Char", "Enter"} THEN <<c.ch>> ELSE <<>>) \o CharsOf(s \ {id})

(* C21: while a report is handled, a character is pushed to the            *)
(* InputManager queue for usage id k exactly when k is among the report's  *)
(* keycodes report[2..8], was not among the previous report's keycodes and *)
(* translates to a character; held and released keys push nothing; and     *)
(* prev_pressed_keys afterwards is the set built from the report.          *)
C21_PushOnNewKeysOnly ==
    [][AttachReport /\ attach_last'.ev = "report" =>
          LET report == attach_last'.report
              keys   == {report[i] : i \in 3..8}
          IN  /\ attach_last'.prev = prev_pressed_keys
              /\ input_queue' = input_queue \o CharsOf(keys \ prev_pressed_keys)
              /\ prev_pressed_keys' = keys]_vars

C21_Witness ==
    /\ attach_last.ev = "report"
    /\ 4 \in attach_last.prev
    /\ attach_last.report = <<2, 0, 4, 40, 0, 0, 0, 0>>
    /\ attach_last.pushed = <<10>>
    /\ prev_pressed_keys = {0, 4, 40}
    /\ Len(input_queue) >= 1
    /\ input_queue[Len(input_queue)] = 10

----------------------------------------------------------------------------
(* Properties of the context switcher *)

(* C22: exec_app_context returns, with the app's return code, only after   *)
(* an entry into the app that came back with exit_reason == 0; after an    *)
(* entry that came back with any other exit_reason it awaits               *)
(* yield_execution once and then enters the app again.                     *)
C22_ReturnOnlyOnExitReasonZero ==
    [][/\ (exec_pc' = "done" /\ exec_pc # "done") =>
              exec_pc = "returned" /\ exit_reason = 0 /\ exec_result' = retcode
       /\ (exec_pc = "returned" /\ exit_reason = 0 /\ exec_pc' # exec_pc) => exec_pc' = "done"
       /\ (exec_pc = "returned" /\ exit_reason # 0 /\ exec_pc' # exec_pc) =>
              exec_pc' = "yield_pending" /\ yields' = yields + 1 /\ exec_result' = None
       /\ (exec_pc = "yield_pending" /\ exec_pc' # exec_pc) =>
              exec_pc' = "start" /\ yields' = yields
       /\ (exec_pc = "start" /\ exec_pc' # exec_pc) =>
              exec_pc' = "in_app" /\ entries' = entries + 1 /\ yields' = yields
       /\ (exec_pc = "in_app" /\ exec_pc' # exec_pc) => exec_pc' = "returned" /\ yields' = yields
       /\ (exec_pc = exec_pc') => yields' = yields /\ entries' = entries]_vars

C22_Witness ==
    /\ exec_pc = "done"
    /\ exec_result = 42
    /\ entries = 3
    /\ yields = 2

(* C23: when exec_app_context re-enters the app after a yielding syscall,  *)
(* the app resumes with the state it had when it was suspended: every      *)
(* general-purpose register, RFLAGS, RSP and RIP are those CONTEXT_APP     *)
(* holds.                                                                   *)
C23_ResumesWithSavedState ==
    (exec_pc = "in_app" /\ ctx_last.op = "enter" /\ ctx_last.after_yield) =>
        /\ context_app = ctx_last.app
        /\ \A f \in CpuFields : cpu[f] = context_app[f]

(* C24: while the app side runs, exec_app_context holds neither the lock   *)
(* of CONTEXT_OS nor that of CONTEXT_APP, so a syscall handler can take    *)
(* both.                                                                    *)
C24_NoLockHeldWhileAppRuns ==
    exec_pc = "in_app" => lock_os = "free" /\ lock_app = "free" /\ ENABLED AppSyscall

C24_Witness ==
    /\ exec_pc = "returned"
    /\ ctx_last.op = "yield"
    /\ context_app = ctx_last.app
    /\ context_os["r8"] = exit_reason
    /\ exit_reason = -1
    /\ lock_os = "free"
    /\ lock_app = "free"

----------------------------------------------------------------------------
(* Properties of the interrupt handlers *)

(* C25: an interrupt returns to the interrupted context only for vector    *)
(* 32, and only after end-of-interrupt was signalled to the local APIC;    *)
(* vectors 3, 6, 13 and 14 print a diagnostic and end in a panic, and      *)
(* every vector without an entry point of its own ends in the panic of the *)
(* trampoline.                                                              *)
C25_OnlyTimerReturns ==
    /\ \A v \in Vectors :
          (idt_entries[v].entry = "int_handler_unimplemented") = (v \notin {3, 6, 13, 14, 32})
    /\ \A index \in Vectors, e \in ErrorCodes :
          /\ (inthandler(e, index).end = "return") = (index = 32)
          /\ index # 32 => inthandler(e, index).printed # <<>> /\ ~inthandler(e, index).eoi
    /\ int_last.vector # None =>
          /\ (int_last.end = "iretq") = (int_last.vector = 32)
          /\ int_last.vector = 32 => int_last.eoi /\ eoi_count >= 1 /\ ~int_fatal
          /\ int_last.vector \in {3, 6, 13, 14} =>
                /\ int_last.end = "panic: fatal exception"
                /\ Len(int_last.printed) >= 2
                /\ int_fatal
          /\ int_last.vector \notin {3, 6, 13, 14, 32} =>
                int_last.end = "panic: unexpected interrupt!" /\ int_fatal

C25_Witness ==
    /\ int_last.vector = 14
    /\ int_last.error_code = 6
    /\ int_last.printed = <<"Interrupt Info", "Page Fault", "CR2", "user", "write", "non-present">>
    /\ int_fatal
    /\ eoi_count = 2

----------------------------------------------------------------------------
(* Properties of the PCI bus/device/function numbers *)

(* C26: for every (bus, device, function) in [0,256) x [0,32) x [0,8),     *)
(* BusDeviceFunction::new succeeds and bus(), device(), function() return  *)
(* the triple; with a component out of range it fails; and the iterator    *)
(* yields exactly 65,536 values, the i-th decoding to                      *)
(* (i >> 8, (i >> 3) & 31, i & 7).                                          *)
C26_BdfRoundTrip ==
    /\ (pci_next_id = 0 /\ pci_item = None) =>
          \A b \in 0..255, d \in 0..31, f \in 0..7 :
             LET r == BusDeviceFunctionNew(b, d, f)
             IN  r.ok /\ bus(r.id) = b /\ device(r.id) = d /\ function(r.id) = f
    /\ pci_last.op = "new" =>
          IF pci_last.bus < 256 /\ pci_last.device < 32 /\ pci_last.function < 8
          THEN /\ pci_last.ok
               /\ bus(pci_last.id) = pci_last.bus
               /\ device(pci_last.id) = pci_last.device
               /\ function(pci_last.id) = pci_last.function
          ELSE ~pci_last.ok
    /\ pci_item # None =>
          LET i == pci_yielded - 1
          IN  /\ bus(pci_item) = i \div 256
              /\ device(pci_item) = (i \div 8) % 32
              /\ function(pci_item) = i % 8
    /\ pci_yielded <= 65536
    /\ (pci_item = None /\ pci_next_id > 0) => pci_yielded = 65536

C26_Witness ==
    /\ pci_item = None
    /\ pci_yielded = 65536
    /\ pci_last.op = "new"
    /\ pci_last.bus = 11 /\ pci_last.device = 7 /\ pci_last.function = 5
    /\ pci_last.ok
    /\ pci_last.id = 2877

----------------------------------------------------------------------------
(* Properties of transfer_rect *)

RectInside(x, y, w, h) == 0 <= x /\ 0 <= y /\ x + w <= W /\ y + h <= H

(* C27: with the source rect and the destination rect inside the bitmap,   *)
(* overlapping or not, transfer_rect leaves in the destination rect the    *)
(* pixels the source rect held before the call and changes no pixel        *)
(* outside the destination rect; with a rect not inside the bitmap it      *)
(* returns OutOfRange and changes nothing.                                  *)
C27_TransferWithoutTearing ==
    gfx_last.op = "transfer_rect" =>
        LET a == gfx_last
        IN  IF a.w >= 1 /\ a.h >= 1
            THEN IF RectInside(a.sx, a.sy, a.w, a.h) /\ RectInside(a.dx, a.dy, a.w, a.h)
                 THEN /\ a.res = "Ok"
                      /\ \A x \in 0..(W - 1), y \in 0..(H - 1) :
                            gfx_buf[unchecked_pixel_at(x, y)] =
                               IF /\ a.dx <= x /\ x < a.dx + a.w
                                  /\ a.dy <= y /\ y < a.dy + a.h
                               THEN INIT[unchecked_pixel_at(x - a.dx + a.sx, y - a.dy + a.sy)]
                               ELSE INIT[unchecked_pixel_at(x, y)]
                 ELSE a.res = "OutOfRange" /\ gfx_buf = INIT
            ELSE gfx_buf = INIT

(* the transfer down of the test: TR_D *)
C27_Witness ==
    /\ gfx_last = [op |-> "transfer_rect", dx |-> 1, dy |-> 2, sx |-> 1, sy |-> 1, w |-> 2,
                   h |-> 2, res |-> "Ok"]
    /\ gfx_buf = [i \in 0..15 |-> <<0, 1, 2, 3, 10, 11, 12, 13, 20, 11, 12, 23, 30, 21, 22, 33>>[i + 1]]

----------------------------------------------------------------------------
(* Properties of the split (Header::provide) *)

(* the header alloc takes: the first in list order that is free and can    *)
(* provide; 0 when there is none                                            *)
RECURSIVE FirstProvider(_, _, _, _, _)
FirstProvider(m, cur, seen, size, align) ==
    IF cur = 0 \/ cur \in seen THEN 0
    ELSE IF ~m[cur].is_allocated /\ can_provide(m[cur], EffectiveSize(size), EffectiveAlign(align))
    THEN cur
    ELSE FirstProvider(m, m[cur].next_header, seen \cup {cur}, size, align)

(* the next chain from cur ends without coming back to a header *)
RECURSIVE Acyclic(_, _, _)
Acyclic(m, cur, seen) ==
    IF cur = 0 THEN TRUE
    ELSE IF cur \in seen \/ cur \notin DOMAIN m THEN FALSE
    ELSE Acyclic(m, m[cur].next_header, seen \cup {cur})

(* C28: every region alloc returns lies, with its 16-byte header, inside   *)
(* the free block chosen for the split and above that block's own header,  *)
(* for every size and power-of-two align; so no header is overwritten and  *)
(* live allocations do not overlap.                                         *)
C28_RegionInsideChosenBlock ==
    [][ (last'.op = "alloc" /\ last'.res = "ok") =>
          LET self == FirstProvider(mem, first_header, {}, last'.size, last'.align)
          IN  /\ self # 0
              /\ self + HDR <= last'.ptr - HDR
              /\ last'.ptr + EffectiveSize(last'.size) <= self + mem[self].size ]_vars

(* C29: a split places the allocated region at the high end of the block,  *)
(* aligned down: allocated_addr = (end_addr - effective_size) & ~(align -  *)
(* 1); its header is written at allocated_addr - 16 marked allocated, and  *)
(* the bytes between the region's end and the block's original end become  *)
(* a separate header marked free.                                           *)
C29_SplitAtHighEnd ==
    [][ (last'.op = "alloc" /\ last'.res = "ok") =>
          LET self == FirstProvider(mem, first_header, {}, last'.size, last'.align)
              end  == self + mem[self].size
              es   == EffectiveSize(last'.size)
              addr == AlignDown(end - es, EffectiveAlign(last'.align))
          IN  /\ last'.ptr = addr
              /\ addr - HDR \in DOMAIN mem'
              /\ mem'[addr - HDR].is_allocated
              /\ addr + es # end =>
                    /\ addr + es \in DOMAIN mem'
                    /\ ~mem'[addr + es].is_allocated
                    /\ mem'[addr + es].size = end - (addr + es) ]_vars

(* C30: a split threads the list as self -> allocated -> padding (when     *)
(* present) -> old next, and after any sequence of init, alloc and free    *)
(* the next chain from the list head is acyclic and reaches every header   *)
(* ever created exactly once.                                               *)
C30_ChainAcyclicAndComplete ==
    (heap_ready /\ halted = "run") =>
        /\ Acyclic(mem, first_header, {})
        /\ OnList(mem, first_header) = DOMAIN mem

----------------------------------------------------------------------------
(* the CONVENTIONAL_MEMORY descriptors of a map, as indices in map order *)
ConvIdx(map) == { j \in 1..Len(map) : map[j].memory_type = CONVENTIONAL_MEMORY }

(* the header the list holds after the one of descriptor j: that of the    *)
(* nearest CONVENTIONAL_MEMORY descriptor before j, 0 when there is none   *)
PrevConvStart(map, j) ==
    LET before == { i \in ConvIdx(map) : i < j }
    IN  IF before = {} THEN 0
        ELSE map[CHOOSE i \in before : \A k \in before : k <= i].physical_start

(* C31: after initialisation every CONVENTIONAL_MEMORY descriptor has a    *)
(* free header at physical_start whose size is number_of_pages x 4096, the *)
(* list holds these headers in reverse map order, and descriptors of any   *)
(* other type add no header.                                               *)
C31_InitHeaderPerDescriptor ==
    (heap_ready /\ last.op = "init") =>
        /\ halted = "run"
        /\ DOMAIN mem = { mmap[j].physical_start : j \in ConvIdx(mmap) }
        /\ first_header = PrevConvStart(mmap, Len(mmap) + 1)
        /\ \A j \in ConvIdx(mmap) :
              mem[mmap[j].physical_start] =
                  Header(PrevConvStart(mmap, j),
                         mmap[j].number_of_pages * Units(PAGE_SIZE), FALSE)

----------------------------------------------------------------------------
(* C32: the k-th successful push on the Command ring (k = 0, 1, ...)       *)
(* stores its TRB in slot k mod 15 and returns that slot's address; slot   *)
(* 15 always holds the Link TRB back to slot 0 and no pushed TRB is ever   *)
(* stored in it; current_index never rests on slot 15 between pushes.      *)
(* No call of push fails, so call n is the successful push k = n - 1.      *)
C32_PushFillsSlotsInOrder ==
    /\ cmd_last.res \in {"none", "ok"}
    /\ trb_type(cmd_trb[NUM_TRB - 1]) = "Link"
    /\ cmd_trb[NUM_TRB - 1].data = trb_link.data
    /\ cmd_trb[NUM_TRB - 1].ctl = trb_link.ctl
    /\ cmd_pc = "idle" => cmd_index # NUM_TRB - 1
    /\ cmd_pc \in {"write", "advance"} => cmd_index = (cmd_calls - 1) % (NUM_TRB - 1)
    /\ (cmd_pc = "idle" /\ cmd_last.res = "ok") =>
          /\ cmd_last.n = cmd_calls
          /\ cmd_last.ptr = (cmd_last.n - 1) % (NUM_TRB - 1)
          /\ cmd_trb[cmd_last.ptr].data = cmd_last.n
          /\ cmd_trb[cmd_last.ptr].ctl = cmd_last.n
          /\ trb_type(cmd_trb[cmd_last.ptr]) = "Command"

(* the 17th push, after the wrap over the Link TRB, goes to slot 1 *)
C32_Witness ==
    /\ cmd_pc = "idle" /\ cmd_last.res = "ok" /\ cmd_last.n = NUM_TRB + 1
    /\ cmd_last.ptr = 1 /\ cmd_trb[1].data = NUM_TRB + 1
    /\ cmd_index = 2 /\ trb_type(cmd_trb[NUM_TRB - 1]) = "Link"

----------------------------------------------------------------------------
(* C33 as stated: after a successful push returns, the slot at the         *)
(* returned address holds the pushed TRB with its cycle bit equal to the   *)
(* value cycle_state_ours had when push was called.                        *)
C33_PushStampsOurCycle ==
    (cmd_pc = "idle" /\ cmd_last.res = "ok") =>
        /\ cmd_trb[cmd_last.ptr].data = cmd_last.n
        /\ cmd_trb[cmd_last.ptr].ctl = cmd_last.n
        /\ cycle_state(cmd_trb[cmd_last.ptr]) = cmd_last.ours

(* C33 amended: push stores the TRB with our cycle and the advance_index   *)
(* that follows toggles it, so after a successful push returns the slot    *)
(* at the returned address holds the pushed TRB with its cycle bit equal   *)
(* to the negation of the value cycle_state_ours had when push was called. *)
C33_PushLeavesToggledCycle ==
    (cmd_pc = "idle" /\ cmd_last.res = "ok") =>
        /\ cmd_trb[cmd_last.ptr].data = cmd_last.n
        /\ cmd_trb[cmd_last.ptr].ctl = cmd_last.n
        /\ cycle_state(cmd_trb[cmd_last.ptr]) = ~cmd_last.ours

(* the 16th push: cycle_state_ours was TRUE at the call, the slot holds    *)
(* the TRB with cycle bit FALSE                                            *)
C33_Witness ==
    /\ cmd_pc = "idle" /\ cmd_last.res = "ok" /\ cmd_last.n = NUM_TRB
    /\ cmd_last.ours = TRUE /\ cmd_last.ptr = 0
    /\ cmd_trb[0].data = NUM_TRB /\ cycle_state(cmd_trb[0]) = FALSE

----------------------------------------------------------------------------
(* C34: dequeue_trb(trb_ptr) succeeds exactly when trb_ptr is the address  *)
(* of the slot at dequeue_index, so the k-th successful call is for slot   *)
(* k mod 15; a success advances the dequeue index by one and the enqueue   *)
(* index by one, skipping the Link slot and flipping cycle_state_ours      *)
(* there; a mismatch returns an error and leaves dequeue_index, the        *)
(* enqueue index, every cycle bit and cycle_state_ours unchanged.          *)
C34_DequeueInRingOrder ==
    [][ xfer_last'.op = "dequeue_trb" =>
          IF xfer_last'.ptr = xfer_deq
          THEN /\ xfer_last'.res = "ok"
               /\ xfer_last'.ptr = xfer_count % (NUM_TRB - 1)
               /\ xfer_count' = xfer_count + 1
               /\ xfer_deq' = (xfer_deq + 1) % (NUM_TRB - 1)
               /\ xfer_index' = (IF xfer_index + 1 = NUM_TRB - 1 THEN 0 ELSE xfer_index + 1)
               /\ xfer_cycle' = (IF xfer_index + 1 = NUM_TRB - 1 THEN ~xfer_cycle ELSE xfer_cycle)
          ELSE /\ xfer_last'.res = "unexpected trb ptr"
               /\ UNCHANGED <<xfer_deq, xfer_index, xfer_cycle, xfer_trb, xfer_count>> ]_vars

(* a completion for slot 3 is refused after the 15 completions of the      *)
(* first lap: the dequeue index is back at slot 0 and our cycle is flipped *)
C34_Witness ==
    /\ xfer_last = [op |-> "dequeue_trb", ptr |-> 3, res |-> "unexpected trb ptr"]
    /\ xfer_count = NUM_TRB - 1 /\ xfer_deq = 0 /\ xfer_index = NUM_TRB - 2
    /\ xfer_cycle = TRUE

----------------------------------------------------------------------------
(* C35: a pop that returns an event writes to ERDP the address of the TRB  *)
(* it returned combined with the low 4 bits ERDP held, and flips           *)
(* cycle_state_ours exactly when current_index wrapped to 0, once per 16   *)
(* events; a pop that finds no event returns None and changes neither      *)
(* current_index, cycle_state_ours nor ERDP.                               *)
C35_PopWritesErdp ==
    [][ /\ (ev_pc = "erdp" /\ ev_pc' = "idle") =>
              /\ ev_last'.res = "some"
              /\ ev_last'.id = ev_popped'
              /\ ev_erdp' \div 16 = EvSlotAddr((ev_last'.id - 1) % NUM_TRB) \div 16
              /\ ev_erdp' % 16 = ev_erdp % 16
              /\ (ev_cycle' # ev_cycle) <=> (ev_index = 0)
              /\ (ev_cycle' # ev_cycle) <=> (ev_popped' % NUM_TRB = 0)
        /\ (ev_pc = "idle" /\ ev_pc' = "idle" /\ xhc_ev_written' = xhc_ev_written) =>
              /\ ev_last'.res = "none"
              /\ UNCHANGED <<ev_index, ev_cycle, ev_erdp, ev_popped>> ]_vars

(* the 16th event has been popped from slot 15 with Event Handler Busy     *)
(* set: ERDP holds that slot's address and the bit, and our cycle flipped  *)
C35_Witness ==
    /\ ev_pc = "idle" /\ ev_last.res = "some" /\ ev_last.id = NUM_TRB
    /\ ev_popped = NUM_TRB /\ ev_index = 0 /\ ev_cycle = FALSE
    /\ ev_erdp = EvSlotAddr(NUM_TRB - 1) + 8

----------------------------------------------------------------------------
----------------------------------------------------------------------------
(* the address whose ARP entry process_tx needs for dst *)
C37_HopIp(dst) ==
    IF network_prefix(lease.self_ip, lease.netmask) = network_prefix(dst, lease.netmask)
    THEN dst ELSE lease.router

(* C37: an iteration of the network manager removes at most one packet     *)
(* from the transmit queue, the one send_ip_packet queued first; the       *)
(* removed packet is handed to at most one interface or dropped and never  *)
(* put back, so a packet popped while self_ip or netmask is unknown, or    *)
(* while its next hop has no ARP entry, is dropped for good; nothing but   *)
(* process_tx removes from the queue and send_ip_packet adds at its back.  *)
C37_TxPopsOnePacketFifo ==
    [][ /\ net_pc = "tx" =>
              IF ip_tx_queue = <<>>
              THEN ip_tx_queue' = <<>> /\ net_last'.pushed = <<>>
              ELSE /\ ip_tx_queue' = Tail(ip_tx_queue)
                   /\ net_last'.op = "tx"
                   /\ net_last'.pkt = Head(ip_tx_queue)
                   /\ Len(net_last'.pushed) <= 1
                   /\ \A i \in 1..Len(net_last'.pushed) :
                         net_last'.pushed[i].dst = Head(ip_tx_queue)
                   /\ (\/ lease.self_ip = NoIp
                       \/ lease.netmask = NoIp
                       \/ C37_HopIp(Head(ip_tx_queue)) \notin DOMAIN arp_table)
                          => net_last'.pushed = <<>>
        /\ net_pc # "tx" =>
              /\ Len(ip_tx_queue') >= Len(ip_tx_queue)
              /\ Len(ip_tx_queue') <= Len(ip_tx_queue) + 1
              /\ SubSeq(ip_tx_queue', 1, Len(ip_tx_queue)) = ip_tx_queue ]_vars

(* two packets were queued before the lease arrived: the first was popped  *)
(* and dropped, the second is still waiting                                *)
C37_Witness ==
    /\ net_last.op = "tx" /\ net_last.pkt = IpDns /\ net_last.res = "dropped"
    /\ net_last.pushed = <<>>
    /\ lease.self_ip = NoIp
    /\ ip_tx_queue = <<IpFar>>

----------------------------------------------------------------------------
RECURSIVE C38_Learnt(_, _, _)
(* the ARP table after the ARP responses among the frames handled, from    *)
(* frame i on: each sets the entry of its sender_ip to the sender's MAC    *)
(* and the interface it came in on                                         *)
C38_Learnt(table, rx, i) ==
    IF i > Len(rx) THEN table
    ELSE IF rx[i].frame.kind # "arp_response" THEN C38_Learnt(table, rx, i + 1)
    ELSE C38_Learnt([ip \in DOMAIN table \cup {rx[i].frame.ip} |->
                        IF ip = rx[i].frame.ip
                        THEN [mac |-> MacOf(ip), iface |-> rx[i].iface]
                        ELSE table[ip]],
                    rx, i + 1)

(* C38: the ARP table changes only when an ARP response is received: the   *)
(* entry of sender_ip becomes (sender_mac, receiving interface), in place  *)
(* of any earlier entry; ARP requests and all other frames leave the table *)
(* unchanged; an iteration pops at most one frame per interface.           *)
C38_ArpTableFromResponsesOnly ==
    [][ IF net_pc = "rx"
        THEN /\ net_last'.op = "rx"
             /\ arp_table' = C38_Learnt(arp_table, net_last'.rx, 1)
             /\ Len(net_last'.rx) <= Len(interfaces)
             /\ \A i, j \in 1..Len(net_last'.rx) :
                   i < j => net_last'.rx[i].iface # net_last'.rx[j].iface
             /\ (\A i \in 1..Len(net_last'.rx) : net_last'.rx[i].frame.kind # "arp_response")
                    => arp_table' = arp_table
        ELSE arp_table' = arp_table ]_vars

(* both interfaces receive an ARP response of the router in one           *)
(* iteration: the entry learnt on interface 1 is replaced by interface 2's *)
C38_Witness ==
    /\ net_last.op = "rx" /\ net_last.res = "ok"
    /\ net_last.rx = <<[iface |-> 1, frame |-> [kind |-> "arp_response", ip |-> IpRouter]],
                       [iface |-> 2, frame |-> [kind |-> "arp_response", ip |-> IpRouter]]>>
    /\ arp_table = (IpRouter :> [mac |-> MacOf(IpRouter), iface |-> 2])

----------------------------------------------------------------------------
(* C39: for every byte sequence in the options area of a DHCP boot reply,  *)
(* handle_rx_dhcp_client ends with Ok or Err and never panics; padding     *)
(* bytes are skipped, parsing stops at the first End byte, and options     *)
(* after End have no effect.                                               *)
C39_OptionsNeverPanic ==
    dhcp_last.op = "reply" =>
        LET Parsed(pieces) ==
                handle_rx_dhcp_client(NoLease,
                    DhcpPacket(TRUE, IpSelf, Flatten(pieces), NoLease))
        IN  /\ dhcp_last.res \in {"ok", "Invalid op data len"}
            /\ (dhcp_last.pieces # <<>>
                /\ Head(dhcp_last.pieces) = <<DHCP_OPT_MESSAGE_TYPE_PADDING>>)
                   => (dhcp_last.res = Parsed(Tail(dhcp_last.pieces)).res
                       /\ dhcp_last.lease = Parsed(Tail(dhcp_last.pieces)).lease)
            /\ (dhcp_last.pieces # <<>>
                /\ Head(dhcp_last.pieces) = <<DHCP_OPT_MESSAGE_TYPE_END>>)
                   => (dhcp_last.res = "ok"
                       /\ dhcp_last.lease = [NoLease EXCEPT !.self_ip = IpSelf])

----------------------------------------------------------------------------
(* C40: when the timer interrupt (vector 32) is taken, the trampoline      *)
(* returns through iretq with every general-purpose register equal to its  *)
(* value at the moment the interrupt was taken; for RAX, the register the  *)
(* trampoline writes before it saves the registers:                        *)
C40_TimerPreservesRax ==
    (int_last.vector = 32 /\ int_last.end = "iretq") => int_last.rax_after = int_last.rax

====
